---- MODULE Spec2Model ----
(***************************************************************************)
(* httpSandwich: the exchange history (a bounded FIFO buffer with change   *)
(* listeners), the detail level, the TUI layout and the screen renderer    *)
(* with its item selection, as wired together by the CLI entry point.      *)
(*                                                                         *)
(* Spec        the running program of src/cli/main.ts: exchanges arriving  *)
(*             from the proxy, key presses and terminal resizes, each      *)
(*             handled to completion before the next.                      *)
(* SpecHistory the ExchangeHistory class driven directly through its       *)
(*             public methods (add, clear, onExchangeAdded), as the unit   *)
(*             tests drive it.                                             *)
(* SpecLayout  the TuiLayout class driven directly through its public      *)
(*             methods over a terminal of settable size.                   *)
(* SpecTruncate one writeViewportLine call for every text of a few pieces  *)
(*             and every narrow width.                                     *)
(* SpecLevel   the DetailLevel class: of, increment and decrement on       *)
(*             instances with references.                                  *)
(* SpecReads   the reads of ExchangeHistory, getByIndex and getRecent.      *)
(* SpecStatus  formatExchange for every status code: the category.         *)
(* SpecHeaders formatExchange for header values of every length: the       *)
(*             header lines.                                               *)
(* SpecProxy   HttpProxyServer: the forwards of concurrent requests under  *)
(*             the target's events.                                        *)
(* SpecStore   FileExchangeStore: concurrent save() calls.                 *)
(***************************************************************************)
EXTENDS Integers, Sequences, FiniteSets

VARIABLES
    maxSize,        \* ExchangeHistory.maxSize (the capacity)
    exchanges,      \* ExchangeHistory.exchanges, oldest first
    handlers,       \* ExchangeHistory.handlers, in registration order
    notified,       \* the handler calls made by the most recent add()
    added,          \* every exchange passed to add() since the buffer was last empty by
                    \* construction or clear(), in call order
    nextId,         \* the identifier the exchange source gives to its next exchange
    currentLevel,   \* ScreenRenderer.currentLevel.value
    selectionMode,  \* ScreenRenderer.selectionMode
    selectedIndex,  \* ScreenRenderer.selectedIndex: <<>> is null, <<i>> is the index i
    termSize,       \* what TerminalUI.getSize() returns
    operations,     \* the terminal operations issued by the most recent event, in order
    proxy,          \* HttpProxyServer: for each inbound request, where its forward stands
                    \* and the onExchange calls made for it
    store,          \* FileExchangeStore: the initialized flag, the storage directory and
                    \* where each save() call stands
    last            \* the most recent event: its name and the renderer and history state
                    \* it started from

vars == <<maxSize, exchanges, handlers, notified, added, nextId, currentLevel,
          selectionMode, selectedIndex, termSize, operations, proxy, store, last>>

historyVars == <<maxSize, exchanges, handlers, notified, added, nextId>>
rendererVars == <<currentLevel, selectionMode, selectedIndex, termSize, operations>>
ioVars == <<proxy, store>>

(***************************************************************************)
(* Bounds of the model.                                                    *)
(***************************************************************************)
MaxCapacity == 3
MaxExchanges == 5
MaxHandlers == 2
MaxRequests == 3
MaxSaves == 3

Max(a, b) == IF a >= b THEN a ELSE b
Min(a, b) == IF a <= b THEN a ELSE b

\* JavaScript's Array.prototype.slice(start, end) on 0-based indices, start and end
\* already inside [0, length].
Slice(s, start, end) == SubSeq(s, start + 1, end)

\* Array.prototype.slice(-n): a negative start counts from the end (the last
\* min(n, length) elements), a start of 0 or more counts from the front, so that
\* slice(-0) is slice(0), the whole array.
SliceLast(s, n) ==
    IF n > 0
    THEN SubSeq(s, Max(1, Len(s) - n + 1), Len(s))
    ELSE SubSeq(s, Min(0 - n, Len(s)) + 1, Len(s))

(***************************************************************************)
(* Optional numbers (number | null).                                       *)
(***************************************************************************)
Null == <<>>
Some(i) == <<i>>
Val(x) == x[1]

(***************************************************************************)
(* HttpProxyServer and FileExchangeStore as constructed. Where their       *)
(* internals are not looked at, they stay as constructed and exchanges     *)
(* simply arrive.                                                          *)
(***************************************************************************)
\* The inbound requests and the save() calls of the model.
Requests == 1..MaxRequests
Saves == 1..MaxSaves

\* An inbound request that has not arrived yet:
\*   pc        where handleRequest stands: "idle", "collectBody" (awaiting the
\*             client's body) or "forwarded" (proxyReq made, written and ended)
\*   response  where handleResponse stands: "none" (not called), "collectBody"
\*             (awaiting the target's body) or "done"
\*   socket    the connection to the target: "open", "ended" (response complete)
\*             or "failed"
\*   client    clientRes: "open", "answered" (the target's status written and the
\*             response ended) or "502"
\*   calls     the onExchange calls made for the request: "response" for an exchange
\*             with a response, "null" for one without
NewForward ==
    [pc |-> "idle", response |-> "none", socket |-> "open", client |-> "open",
     calls |-> <<>>]

NewProxy == [r \in Requests |-> NewForward]

\* new FileExchangeStore(): initialized is false; the storage directory is not
\* known to exist; no save() has been called.
NewStore ==
    [initialized |-> FALSE, directory |-> FALSE, saves |-> [s \in Saves |-> "idle"]]

IoIdle ==
    /\ proxy = NewProxy
    /\ store = NewStore

(***************************************************************************)
(* HttpExchange. An exchange carries its identifier and, of its content,   *)
(* what decides the number of lines it is displayed on: whether a response *)
(* was received, the number of request and response headers, and the       *)
(* number of physical lines of each body (0: the body is null or empty).   *)
(***************************************************************************)
Exchange(id, shape) ==
    [id |-> id,
     response |-> shape.response,
     requestHeaders |-> shape.requestHeaders,
     responseHeaders |-> shape.responseHeaders,
     requestBody |-> shape.requestBody,
     responseBody |-> shape.responseBody]

\* The exchanges the source emits: a failed forward (no response, no headers, no
\* body) and an answered request with one header each way and a two-line response
\* body.
ExchangeShapes ==
    {[response |-> FALSE, requestHeaders |-> 0, responseHeaders |-> 0,
      requestBody |-> 0, responseBody |-> 0],
     [response |-> TRUE, requestHeaders |-> 1, responseHeaders |-> 1,
      requestBody |-> 0, responseBody |-> 2]}

(***************************************************************************)
(* DetailLevel                                                             *)
(***************************************************************************)
MIN == 1
MAX == 6
DEFAULT == 3
Levels == MIN..MAX

\* DetailLevel.increment / decrement, on the level's value.
Increment(value) == IF value >= MAX THEN value ELSE value + 1
Decrement(value) == IF value <= MIN THEN value ELSE value - 1

\* DetailLevel.equals
LevelEquals(a, b) == a = b

(***************************************************************************)
(* ExchangeHistory                                                         *)
(***************************************************************************)
\* Array.prototype.shift(): the array without its first element; an empty array stays
\* empty.
Shift(s) == IF s = <<>> THEN <<>> ELSE Tail(s)

\* Mutant of add(): at capacity it drops the newest exchange instead of the oldest
\* (pop() for shift()).
AddedExchangesDropNewest(buf, cap, exchange) ==
    Append(IF Len(buf) >= cap /\ buf # <<>> THEN SubSeq(buf, 1, Len(buf) - 1) ELSE buf,
           exchange)

\* Mutant of add(): it evicts only when the buffer is over capacity (> for >=).
AddedExchangesOffByOne(buf, cap, exchange) ==
    Append(IF Len(buf) > cap THEN Shift(buf) ELSE buf, exchange)

\* add(): the buffer after the eviction (if at capacity) and the append.
AddedExchanges(buf, cap, exchange) ==
    Append(IF Len(buf) >= cap THEN Shift(buf) ELSE buf, exchange)

\* add(): the handler calls it makes, in order; each call records the handler, the
\* exchange it is given and the buffer as the handler sees it.
Notifications(hs, exchange, seen) ==
    [i \in 1..Len(hs) |-> [handler |-> hs[i], exchange |-> exchange, seen |-> seen]]

\* Mutant of add(exchange): the handlers run before the buffer is updated.
AddNotifyingFirst(buf, cap, hs, exchange) ==
    [exchanges |-> AddedExchanges(buf, cap, exchange),
     notified |-> Notifications(hs, exchange, buf)]

\* add(exchange): the buffer it leaves and the handler calls it makes; the handlers
\* run after the eviction and the append.
Add(buf, cap, hs, exchange) ==
    [exchanges |-> AddedExchanges(buf, cap, exchange),
     notified |-> Notifications(hs, exchange, AddedExchanges(buf, cap, exchange))]

\* Mutant of clear(): it keeps the newest exchange.
ClearAllButNewest(buf) == IF buf = <<>> THEN <<>> ELSE <<buf[Len(buf)]>>

\* clear(): the buffer it leaves.
Clear(buf) == <<>>

\* onExchangeAdded(handler): the handler list it leaves.
OnExchangeAdded(hs, handler) == Append(hs, handler)

\* Mutant of getByIndex(): a negative index counts from the end, as Array.at() does.
GetByIndexFromEnd(buf, index) ==
    IF index >= 0 /\ index < Len(buf) THEN <<buf[index + 1]>>
    ELSE IF index < 0 /\ Len(buf) + index >= 0 THEN <<buf[Len(buf) + index + 1]>>
    ELSE <<>>

\* getByIndex(): the exchange at a 0-based index, <<>> for undefined.
GetByIndex(buf, index) ==
    IF index >= 0 /\ index < Len(buf) THEN <<buf[index + 1]>> ELSE <<>>

\* getRecent()
GetRecent(buf, count) ==
    IF count >= Len(buf) THEN buf ELSE SliceLast(buf, count)

(***************************************************************************)
(* ExchangeFormatter. A formatted line is described by the exchange it     *)
(* belongs to and the part of the exchange it shows.                       *)
(***************************************************************************)
Line(exchange, part, n) == [id |-> exchange.id, part |-> part, n |-> n]

\* formatLevel4: the main line, the request headers, the response headers if a
\* response exists, and the empty separator line.
FormatLevel4(exchange) ==
    <<Line(exchange, "main", 0), Line(exchange, "requestHeadersLabel", 0)>>
    \o [k \in 1..exchange.requestHeaders |-> Line(exchange, "requestHeader", k)]
    \o (IF exchange.response
        THEN <<Line(exchange, "responseHeadersLabel", 0)>>
             \o [k \in 1..exchange.responseHeaders |-> Line(exchange, "responseHeader", k)]
        ELSE <<>>)
    \o <<Line(exchange, "blank", 0)>>

\* formatLevel4's lines without the trailing empty line (lines.pop()).
WithoutTrailingBlank(lines) ==
    IF lines[Len(lines)].part = "blank" THEN SubSeq(lines, 1, Len(lines) - 1) ELSE lines

\* formatLevel5: each non-empty body on one truncated line.
FormatLevel5(exchange) ==
    WithoutTrailingBlank(FormatLevel4(exchange))
    \o (IF exchange.requestBody > 0
        THEN <<Line(exchange, "requestBodyLabel", 0), Line(exchange, "requestBody", 1)>>
        ELSE <<>>)
    \o (IF exchange.response /\ exchange.responseBody > 0
        THEN <<Line(exchange, "responseBodyLabel", 0), Line(exchange, "responseBody", 1)>>
        ELSE <<>>)
    \o <<Line(exchange, "blank", 0)>>

\* formatLevel6: each non-empty body on one line per physical body line.
FormatLevel6(exchange) ==
    WithoutTrailingBlank(FormatLevel4(exchange))
    \o (IF exchange.requestBody > 0
        THEN <<Line(exchange, "requestBodyLabel", 0)>>
             \o [k \in 1..exchange.requestBody |-> Line(exchange, "requestBody", k)]
        ELSE <<>>)
    \o (IF exchange.response /\ exchange.responseBody > 0
        THEN <<Line(exchange, "responseBodyLabel", 0)>>
             \o [k \in 1..exchange.responseBody |-> Line(exchange, "responseBody", k)]
        ELSE <<>>)
    \o <<Line(exchange, "blank", 0)>>

\* formatExchange(exchange, level).lines
FormatExchange(exchange, level) ==
    CASE level = 1 -> <<Line(exchange, "dot", 0)>>
      [] level = 2 -> <<Line(exchange, "status", 0)>>
      [] level = 3 -> <<Line(exchange, "main", 0)>>
      [] level = 4 -> FormatLevel4(exchange)
      [] level = 5 -> FormatLevel5(exchange)
      [] level = 6 -> FormatLevel6(exchange)
      [] OTHER -> <<Line(exchange, "main", 0)>>

(***************************************************************************)
(* TuiLayout. Each method is the sequence of terminal operations it        *)
(* issues for a terminal of the given size.                                *)
(***************************************************************************)
MoveCursor(row, col) == [op |-> "moveCursor", row |-> row, col |-> col]
ClearLine == [op |-> "clearLine"]
Write(text) == [op |-> "write", text |-> text]
ClearScreen == [op |-> "clearScreen"]

\* calculateRegions(size) with the viewport height as the difference of its rows.
CalculateRegionsWithoutFloor(size) ==
    [headerRow |-> 1,
     viewportStartRow |-> 2,
     viewportEndRow |-> size.rows - 1,
     viewportHeight |-> (size.rows - 1) - 2 + 1,
     footerRow |-> size.rows,
     width |-> size.cols]

\* calculateRegions(size)
CalculateRegions(size) ==
    [headerRow |-> 1,
     viewportStartRow |-> 2,
     viewportEndRow |-> size.rows - 1,
     viewportHeight |-> Max(1, (size.rows - 1) - 2 + 1),
     footerRow |-> size.rows,
     width |-> size.cols]

\* renderHeader(from, to, level)
RenderHeader(size, level) ==
    <<MoveCursor(CalculateRegions(size).headerRow, 1), ClearLine,
      Write([kind |-> "header", level |-> level])>>

\* renderFooter(exchangeCount, historyCapacity, storagePath, selectionState): the
\* text is cut to width - 1 characters.
RenderFooter(size, exchangeCount, historyCapacity, selectionState) ==
    <<MoveCursor(CalculateRegions(size).footerRow, 1), ClearLine,
      Write([kind |-> "footer",
             indicator |-> IF selectionState.mode = "active"
                              /\ selectionState.selectedItem # Null
                           THEN <<Val(selectionState.selectedItem), selectionState.totalItems>>
                           ELSE <<>>,
             hint |-> IF selectionState.mode = "active" THEN "ESC exit" ELSE "select",
             count |-> exchangeCount,
             capacity |-> historyCapacity,
             maxLen |-> CalculateRegions(size).width - 1])>>

RECURSIVE ClearRows(_, _)
ClearRows(row, endRow) ==
    IF row > endRow THEN <<>>
    ELSE <<MoveCursor(row, 1), ClearLine>> \o ClearRows(row + 1, endRow)

\* clearViewport() clearing down to the footer row.
ClearViewportThroughFooter(size) ==
    ClearRows(CalculateRegions(size).viewportStartRow, CalculateRegions(size).footerRow)
    \o <<MoveCursor(CalculateRegions(size).viewportStartRow, 1)>>

\* clearViewport()
ClearViewport(size) ==
    ClearRows(CalculateRegions(size).viewportStartRow, CalculateRegions(size).viewportEndRow)
    \o <<MoveCursor(CalculateRegions(size).viewportStartRow, 1)>>

\* writeViewportLine(viewportRow, text) returns true
ViewportLineFits(size, viewportRow) ==
    ~(CalculateRegions(size).viewportStartRow + viewportRow
        > CalculateRegions(size).viewportEndRow)

\* writeViewportLine(viewportRow, text) writing down to the footer row.
WriteViewportLineOntoFooter(size, viewportRow, text) ==
    IF CalculateRegions(size).viewportStartRow + viewportRow > CalculateRegions(size).footerRow
    THEN <<>>
    ELSE <<MoveCursor(CalculateRegions(size).viewportStartRow + viewportRow, 1), ClearLine,
           Write([kind |-> "viewport", text |-> text,
                  maxWidth |-> CalculateRegions(size).width])>>

\* writeViewportLine(viewportRow, text): nothing when the row is past the viewport,
\* else the text cut to the terminal width, written on its row.
WriteViewportLine(size, viewportRow, text) ==
    IF ~ViewportLineFits(size, viewportRow) THEN <<>>
    ELSE <<MoveCursor(CalculateRegions(size).viewportStartRow + viewportRow, 1), ClearLine,
           Write([kind |-> "viewport", text |-> text,
                  maxWidth |-> CalculateRegions(size).width])>>

(***************************************************************************)
(* ScreenRenderer: rendering                                               *)
(***************************************************************************)
\* getSelectionState() giving the selected item by its index.
GetSelectionStateZeroBased(buf, mode, index) ==
    [mode |-> mode,
     selectedItem |-> IF index # Null THEN Some(Val(index)) ELSE Null,
     totalItems |-> Len(buf)]

\* getSelectionState()
GetSelectionState(buf, mode, index) ==
    [mode |-> mode,
     selectedItem |-> IF index # Null THEN Some(Val(index) + 1) ELSE Null,
     totalItems |-> Len(buf)]

\* renderViewport: every exchange formatted at the level and marked as selected or
\* not.
Formatted(buf, level, mode, index) ==
    [i \in 1..Len(buf) |->
        [lines |-> FormatExchange(buf[i], level),
         isSelected |-> mode = "active" /\ index = Some(i - 1)]]

\* renderViewport: the lines of all items in one sequence, each with the selection
\* flag of its item.
RECURSIVE AllLines(_)
AllLines(formatted) ==
    IF formatted = <<>> THEN <<>>
    ELSE [k \in 1..Len(Head(formatted).lines) |->
            [line |-> Head(formatted).lines[k], isSelected |-> Head(formatted).isSelected]]
         \o AllLines(Tail(formatted))

\* calculateVisibleLinesWithSelection: the loop that finds the selected item's first
\* and last line (0-based) in the flattened sequence; i is the 0-based item index
\* and lineIndex the number of lines before it.
RECURSIVE SelectedSpan(_, _, _, _)
SelectedSpan(formatted, selected, i, lineIndex) ==
    IF i >= Len(formatted) THEN [start |-> 0, end |-> 0]
    ELSE IF i = selected
         THEN [start |-> lineIndex,
               end |-> lineIndex + Len(formatted[i + 1].lines) - 1]
         ELSE SelectedSpan(formatted, selected, i + 1,
                           lineIndex + Len(formatted[i + 1].lines))

\* The window centred on the selected item and held inside the lines, without the
\* adjustment that brings the whole item in.
SelectionWindowCentredOnly(total, viewportHeight, span) ==
    LET selectionMidpoint == (span.start + span.end) \div 2
        start0 == Max(0, selectionMidpoint - (viewportHeight \div 2))
        end0 == start0 + viewportHeight
    IN  [startIndex |-> IF end0 > total THEN Max(0, total - viewportHeight) ELSE start0,
         endIndex |-> IF end0 > total THEN total ELSE end0]

\* calculateVisibleLinesWithSelection: the window [startIndex, endIndex) of the
\* flattened lines when a selection is active and the lines overflow the viewport.
SelectionWindow(total, viewportHeight, span) ==
    LET selectionMidpoint == (span.start + span.end) \div 2
        start0 == Max(0, selectionMidpoint - (viewportHeight \div 2))
        end0 == start0 + viewportHeight
        start1 == IF end0 > total THEN Max(0, total - viewportHeight) ELSE start0
        end1 == IF end0 > total THEN total ELSE end0
    IN  IF span.start < start1
        THEN [startIndex |-> span.start,
              endIndex |-> Min(total, span.start + viewportHeight)]
        ELSE IF span.end >= end1
             THEN [startIndex |-> Max(0, span.end + 1 - viewportHeight),
                   endIndex |-> span.end + 1]
             ELSE [startIndex |-> start1, endIndex |-> end1]

\* calculateVisibleLinesWithSelection keeping the oldest lines when nothing is
\* selected.
CalculateVisibleLinesFromOldest(allLines, viewportHeight, formatted, mode, index) ==
    IF Len(allLines) <= viewportHeight THEN allLines
    ELSE IF mode = "none" \/ index = Null THEN Slice(allLines, 0, viewportHeight)
    ELSE LET w == SelectionWindow(Len(allLines), viewportHeight,
                                  SelectedSpan(formatted, Val(index), 0, 0))
         IN  Slice(allLines, w.startIndex, w.endIndex)

\* calculateVisibleLinesWithSelection(allLines, viewportHeight, formatted)
CalculateVisibleLinesWithSelection(allLines, viewportHeight, formatted, mode, index) ==
    IF Len(allLines) <= viewportHeight THEN allLines
    ELSE IF mode = "none" \/ index = Null THEN SliceLast(allLines, viewportHeight)
    ELSE LET w == SelectionWindow(Len(allLines), viewportHeight,
                                  SelectedSpan(formatted, Val(index), 0, 0))
         IN  Slice(allLines, w.startIndex, w.endIndex)

\* renderViewport: the loop writing the visible lines, one per viewport row, up to
\* viewportHeight rows.
RECURSIVE WriteLines(_, _, _, _)
WriteLines(size, visibleLines, viewportRow, viewportHeight) ==
    IF visibleLines = <<>> \/ viewportRow >= viewportHeight THEN <<>>
    ELSE WriteViewportLine(size, viewportRow,
                           [line |-> Head(visibleLines).line,
                            selected |-> Head(visibleLines).isSelected])
         \o WriteLines(size, Tail(visibleLines), viewportRow + 1, viewportHeight)

\* renderDotsInViewport: the loop packing one glyph per item into lines of
\* dotsPerLine glyphs; currentLine holds the glyphs of the line being filled.
RECURSIVE DotLines(_, _, _)
DotLines(formatted, dotsPerLine, currentLine) ==
    IF formatted = <<>>
    THEN IF Len(currentLine) > 0 THEN <<currentLine>> ELSE <<>>
    ELSE LET dot == [dot |-> Head(formatted).lines[1],
                     selected |-> Head(formatted).isSelected]
             line == Append(currentLine, dot)
         IN  IF Len(line) >= dotsPerLine
             THEN <<line>> \o DotLines(Tail(formatted), dotsPerLine, <<>>)
             ELSE DotLines(Tail(formatted), dotsPerLine, line)

\* The first packed line shown following the newest glyph, whatever is selected.
DotsStartIndexOnNewest(lineCount, viewportHeight, dotsPerLine, mode, index) ==
    IF lineCount > viewportHeight THEN lineCount - viewportHeight ELSE 0

\* renderDotsInViewport: the index of the first packed line shown.
DotsStartIndex(lineCount, viewportHeight, dotsPerLine, mode, index) ==
    IF lineCount > viewportHeight
    THEN IF mode = "active" /\ index # Null
         THEN Max(0, Min(lineCount - viewportHeight,
                         (Val(index) \div dotsPerLine) - (viewportHeight \div 2)))
         ELSE lineCount - viewportHeight
    ELSE 0

RECURSIVE WriteDotLines(_, _, _)
WriteDotLines(size, visibleDotLines, i) ==
    IF visibleDotLines = <<>> THEN <<>>
    ELSE WriteViewportLine(size, i, [dots |-> Head(visibleDotLines)])
         \o WriteDotLines(size, Tail(visibleDotLines), i + 1)

\* renderDotsInViewport(formatted, viewportHeight, viewportWidth)
RenderDotsInViewport(size, formatted, viewportHeight, viewportWidth, mode, index) ==
    LET dotsPerLine == Max(1, viewportWidth - 2)
        dotLines == DotLines(formatted, dotsPerLine, <<>>)
        startIndex == DotsStartIndex(Len(dotLines), viewportHeight, dotsPerLine, mode, index)
    IN  WriteDotLines(size,
                      Slice(dotLines, startIndex,
                            Min(Len(dotLines), startIndex + viewportHeight)),
                      0)

\* renderViewport()
RenderViewport(size, buf, level, mode, index) ==
    LET regions == CalculateRegions(size)
        formatted == Formatted(buf, level, mode, index)
    IN  IF Len(buf) = 0
        THEN WriteViewportLine(size, 0, [waiting |-> TRUE])
        ELSE IF level = 1
        THEN RenderDotsInViewport(size, formatted, regions.viewportHeight, regions.width,
                                  mode, index)
        ELSE WriteLines(size,
                        CalculateVisibleLinesWithSelection(AllLines(formatted),
                            regions.viewportHeight, formatted, mode, index),
                        0, regions.viewportHeight)

\* redraw() clearing the viewport after the body has been written.
RedrawClearingAfterBody(size, buf, cap, level, mode, index) ==
    RenderHeader(size, level)
    \o RenderViewport(size, buf, level, mode, index)
    \o ClearViewport(size)
    \o RenderFooter(size, Len(buf), cap, GetSelectionState(buf, mode, index))

\* redraw(): header, viewport clear, viewport body, footer.
Redraw(size, buf, cap, level, mode, index) ==
    RenderHeader(size, level)
    \o ClearViewport(size)
    \o RenderViewport(size, buf, level, mode, index)
    \o RenderFooter(size, Len(buf), cap, GetSelectionState(buf, mode, index))

(***************************************************************************)
(* ScreenRenderer: the state machine. Each method is the renderer state it *)
(* leaves and whether it redraws.                                          *)
(***************************************************************************)
\* setLevel(level)
\* setLevel(level) redrawing whether or not the level changes.
SetLevelAlwaysRedraws(level, newLevel, mode, index) ==
    IF ~LevelEquals(level, newLevel)
    THEN [level |-> newLevel, mode |-> "none", index |-> Null, redraw |-> TRUE]
    ELSE [level |-> level, mode |-> mode, index |-> index, redraw |-> TRUE]

SetLevel(level, newLevel, mode, index) ==
    IF ~LevelEquals(level, newLevel)
    THEN [level |-> newLevel, mode |-> "none", index |-> Null, redraw |-> TRUE]
    ELSE [level |-> level, mode |-> mode, index |-> index, redraw |-> FALSE]

\* Mutant of selectUp(): it enters the selection at the oldest item.
SelectUpFromOldest(mode, index, itemCount) ==
    IF itemCount = 0
    THEN [mode |-> mode, index |-> index, redraw |-> FALSE]
    ELSE IF mode = "none"
    THEN [mode |-> "active", index |-> Some(0), redraw |-> TRUE]
    ELSE IF index # Null /\ Val(index) > 0
    THEN [mode |-> mode, index |-> Some(Val(index) - 1), redraw |-> TRUE]
    ELSE [mode |-> mode, index |-> index, redraw |-> TRUE]

\* Mutant of selectUp(): it moves up without checking for the first item.
SelectUpNoFloor(mode, index, itemCount) ==
    IF itemCount = 0
    THEN [mode |-> mode, index |-> index, redraw |-> FALSE]
    ELSE IF mode = "none"
    THEN [mode |-> "active", index |-> Some(itemCount - 1), redraw |-> TRUE]
    ELSE IF index # Null
    THEN [mode |-> mode, index |-> Some(Val(index) - 1), redraw |-> TRUE]
    ELSE [mode |-> mode, index |-> index, redraw |-> TRUE]

\* selectUp()
SelectUp(mode, index, itemCount) ==
    IF itemCount = 0
    THEN [mode |-> mode, index |-> index, redraw |-> FALSE]
    ELSE IF mode = "none"
    THEN [mode |-> "active", index |-> Some(itemCount - 1), redraw |-> TRUE]
    ELSE IF index # Null /\ Val(index) > 0
    THEN [mode |-> mode, index |-> Some(Val(index) - 1), redraw |-> TRUE]
    ELSE [mode |-> mode, index |-> index, redraw |-> TRUE]

\* Mutant of selectDown(): it moves down without checking for the last item.
SelectDownPastEnd(mode, index, itemCount) ==
    IF itemCount = 0 \/ mode = "none"
    THEN [mode |-> mode, index |-> index, redraw |-> FALSE]
    ELSE IF index # Null
    THEN [mode |-> mode, index |-> Some(Val(index) + 1), redraw |-> TRUE]
    ELSE [mode |-> mode, index |-> index, redraw |-> TRUE]

\* Mutant of selectDown(): it does not return early when nothing is selected.
SelectDownWithoutModeCheck(mode, index, itemCount) ==
    IF itemCount = 0
    THEN [mode |-> mode, index |-> index, redraw |-> FALSE]
    ELSE IF index # Null
    THEN IF Val(index) < itemCount - 1
         THEN [mode |-> mode, index |-> Some(Val(index) + 1), redraw |-> TRUE]
         ELSE [mode |-> "none", index |-> Null, redraw |-> TRUE]
    ELSE [mode |-> mode, index |-> index, redraw |-> TRUE]

\* selectDown()
\* selectDown() leaving the selection at the last item without a redraw.
SelectDownExitsWithoutRedraw(mode, index, itemCount) ==
    IF itemCount = 0 \/ mode = "none"
    THEN [mode |-> mode, index |-> index, redraw |-> FALSE]
    ELSE IF index # Null
    THEN IF Val(index) < itemCount - 1
         THEN [mode |-> mode, index |-> Some(Val(index) + 1), redraw |-> TRUE]
         ELSE [mode |-> "none", index |-> Null, redraw |-> FALSE]
    ELSE [mode |-> mode, index |-> index, redraw |-> TRUE]

\* selectDown() leaving selection mode at the last item with the index kept.
SelectDownLeavesModeOnly(mode, index, itemCount) ==
    IF itemCount = 0 \/ mode = "none"
    THEN [mode |-> mode, index |-> index, redraw |-> FALSE]
    ELSE IF index # Null
    THEN IF Val(index) < itemCount - 1
         THEN [mode |-> mode, index |-> Some(Val(index) + 1), redraw |-> TRUE]
         ELSE [mode |-> "none", index |-> index, redraw |-> TRUE]
    ELSE [mode |-> mode, index |-> index, redraw |-> TRUE]

\* selectDown() wrapping from the last item round to the first.
SelectDownWrapsAround(mode, index, itemCount) ==
    IF itemCount = 0 \/ mode = "none"
    THEN [mode |-> mode, index |-> index, redraw |-> FALSE]
    ELSE IF index # Null
    THEN IF Val(index) < itemCount - 1
         THEN [mode |-> mode, index |-> Some(Val(index) + 1), redraw |-> TRUE]
         ELSE [mode |-> mode, index |-> Some(0), redraw |-> TRUE]
    ELSE [mode |-> mode, index |-> index, redraw |-> TRUE]

SelectDown(mode, index, itemCount) ==
    IF itemCount = 0 \/ mode = "none"
    THEN [mode |-> mode, index |-> index, redraw |-> FALSE]
    ELSE IF index # Null
    THEN IF Val(index) < itemCount - 1
         THEN [mode |-> mode, index |-> Some(Val(index) + 1), redraw |-> TRUE]
         ELSE [mode |-> "none", index |-> Null, redraw |-> TRUE]
    ELSE [mode |-> mode, index |-> index, redraw |-> TRUE]

\* isSelectionActive()
IsSelectionActive(mode) == mode = "active"

\* getSelectedIndex()
GetSelectedIndex(index) == index

\* onNewExchange(exchange) drawing nothing while an exchange is selected.
OnNewExchangeSkipsWhenSelecting(size, buf, cap, level, mode, index) ==
    IF mode = "active" THEN <<>> ELSE Redraw(size, buf, cap, level, mode, index)

\* onNewExchange(exchange): the terminal operations it issues, a redraw.
OnNewExchange(size, buf, cap, level, mode, index) ==
    Redraw(size, buf, cap, level, mode, index)

\* resetSelection()
\* resetSelection() leaving the index in place.
ResetSelectionKeepsIndex(mode, index) ==
    IF mode = "active"
    THEN [mode |-> "none", index |-> index, redraw |-> TRUE]
    ELSE [mode |-> mode, index |-> index, redraw |-> FALSE]

ResetSelection(mode, index) ==
    IF mode = "active"
    THEN [mode |-> "none", index |-> Null, redraw |-> TRUE]
    ELSE [mode |-> mode, index |-> index, redraw |-> FALSE]

(***************************************************************************)
(* The events. `last` records the event just handled: its name, the        *)
(* renderer state and the terminal size it started from, the identifier of *)
(* the exchange that was selected then, for select-up the length of the    *)
(* run of consecutive select-up events that began without a selection (0:  *)
(* no such run), and for select-down the run of consecutive select-down    *)
(* events that began with a selection, as <<index it began at, length>>    *)
(* (<<>>: no such run).                                                    *)
(***************************************************************************)
\* The terminal sizes the model draws from: rows x cols.
TerminalSizes ==
    {[rows |-> 1, cols |-> 1], [rows |-> 3, cols |-> 4], [rows |-> 4, cols |-> 3],
     [rows |-> 8, cols |-> 4]}

\* The longest run of select-up events that is counted exactly.
MaxRun == MaxCapacity + 2

SelectedId(buf, index) ==
    IF index # Null /\ GetByIndex(buf, Val(index)) # <<>>
    THEN <<GetByIndex(buf, Val(index))[1].id>>
    ELSE <<>>

Event(name, run) ==
    [event |-> name, level |-> currentLevel, mode |-> selectionMode,
     index |-> selectedIndex, selectedId |-> SelectedId(exchanges, selectedIndex),
     run |-> run, down |-> <<>>, size |-> termSize]

\* The renderer after one of its methods returned r: the new state, and a redraw at
\* the level the method left if it made one.
Rendered(r, level) ==
    /\ selectionMode' = r.mode
    /\ selectedIndex' = r.index
    /\ operations' = IF r.redraw
                     THEN Redraw(termSize, exchanges, maxSize, level, r.mode, r.index)
                     ELSE <<>>

\* main: the state after construction and renderer.initialize().
Init ==
    /\ IoIdle
    /\ maxSize \in 1..MaxCapacity
    /\ exchanges = <<>>
    /\ handlers = <<>>
    /\ notified = <<>>
    /\ added = <<>>
    /\ nextId = 1
    /\ currentLevel \in Levels
    /\ selectionMode = "none"
    /\ selectedIndex = Null
    /\ termSize \in TerminalSizes
    /\ operations = <<ClearScreen>>
                    \o Redraw(termSize, exchanges, maxSize, currentLevel,
                              selectionMode, selectedIndex)
    /\ last = [event |-> "initialize", level |-> currentLevel, mode |-> "none",
               index |-> Null, selectedId |-> <<>>, run |-> 0, down |-> <<>>,
               size |-> termSize]

\* main, onExchange: history.add(exchange), then renderer.onNewExchange(exchange).
OnExchange ==
    /\ nextId <= MaxExchanges
    /\ \E shape \in ExchangeShapes :
        LET exchange == Exchange(nextId, shape)
            r == Add(exchanges, maxSize, handlers, exchange)
        IN  /\ exchanges' = r.exchanges
            /\ notified' = r.notified
            /\ operations' = OnNewExchange(termSize, r.exchanges, maxSize, currentLevel,
                                           selectionMode, selectedIndex)
    /\ nextId' = nextId + 1
    /\ last' = Event("exchange", 0)
    /\ UNCHANGED <<ioVars, maxSize, handlers, added, currentLevel, selectionMode, selectedIndex,
                   termSize>>

\* main, key INCREMENT: renderer.incrementLevel()
KeyIncrement ==
    LET r == SetLevel(currentLevel, Increment(currentLevel), selectionMode, selectedIndex)
    IN  /\ currentLevel' = r.level
        /\ Rendered(r, r.level)
        /\ last' = Event("increment", 0)
        /\ UNCHANGED <<ioVars, historyVars, termSize>>

\* main, key DECREMENT: renderer.decrementLevel()
KeyDecrement ==
    LET r == SetLevel(currentLevel, Decrement(currentLevel), selectionMode, selectedIndex)
    IN  /\ currentLevel' = r.level
        /\ Rendered(r, r.level)
        /\ last' = Event("decrement", 0)
        /\ UNCHANGED <<ioVars, historyVars, termSize>>

\* main, key SCROLL_UP: renderer.scrollUp(), an alias of selectUp()
KeyScrollUp ==
    /\ Rendered(SelectUp(selectionMode, selectedIndex, Len(exchanges)), currentLevel)
    /\ last' = Event("selectUp",
                     IF selectionMode = "none" THEN 1
                     ELSE IF last.event = "selectUp" /\ last.run > 0
                          THEN Min(last.run + 1, MaxRun)
                          ELSE 0)
    /\ UNCHANGED <<ioVars, historyVars, currentLevel, termSize>>

\* main, key SCROLL_DOWN: renderer.scrollDown(), an alias of selectDown()
KeyScrollDown ==
    /\ Rendered(SelectDown(selectionMode, selectedIndex, Len(exchanges)), currentLevel)
    /\ last' = [Event("selectDown", 0) EXCEPT
                    !.down = IF last.event = "selectDown" /\ last.down # <<>>
                             THEN <<last.down[1], Min(last.down[2] + 1, MaxRun)>>
                             ELSE IF selectionMode = "active" /\ selectedIndex # Null
                                  THEN <<Val(selectedIndex), 1>>
                                  ELSE <<>>]
    /\ UNCHANGED <<ioVars, historyVars, currentLevel, termSize>>

\* main, key ESCAPE: renderer.resetScroll(), an alias of resetSelection()
KeyEscape ==
    /\ Rendered(ResetSelection(selectionMode, selectedIndex), currentLevel)
    /\ last' = Event("resetSelection", 0)
    /\ UNCHANGED <<ioVars, historyVars, currentLevel, termSize>>

\* main, terminal.onResize: the terminal has a new size; renderer.redraw()
\* The resize callback redrawing with the regions of the size before the change.
OnResizeStaleRegions ==
    /\ \E size \in TerminalSizes \ {termSize} :
        /\ termSize' = size
        /\ operations' = Redraw(termSize, exchanges, maxSize, currentLevel,
                                selectionMode, selectedIndex)
    /\ last' = Event("resize", 0)
    /\ UNCHANGED <<ioVars, historyVars, currentLevel, selectionMode, selectedIndex>>

OnResize ==
    /\ \E size \in TerminalSizes \ {termSize} :
        /\ termSize' = size
        /\ operations' = Redraw(size, exchanges, maxSize, currentLevel,
                                selectionMode, selectedIndex)
    /\ last' = Event("resize", 0)
    /\ UNCHANGED <<ioVars, historyVars, currentLevel, selectionMode, selectedIndex>>

Next ==
    \/ OnExchange
    \/ KeyIncrement
    \/ KeyDecrement
    \/ KeyScrollUp
    \/ KeyScrollDown
    \/ KeyEscape
    \/ OnResize

Spec == Init /\ [][Next]_vars

(***************************************************************************)
(* ExchangeHistory on its own: constructed with any capacity, then driven  *)
(* through add, clear and onExchangeAdded. The renderer is not involved    *)
(* and its variables keep their initial values.                            *)
(***************************************************************************)
\* The handlers a caller may register; one may be registered more than once.
Listeners == 1..MaxHandlers

InitHistory ==
    /\ IoIdle
    /\ maxSize \in 0..MaxCapacity
    /\ exchanges = <<>>
    /\ handlers = <<>>
    /\ notified = <<>>
    /\ added = <<>>
    /\ nextId = 1
    /\ currentLevel = DEFAULT
    /\ selectionMode = "none"
    /\ selectedIndex = Null
    \* no terminal is attached: the size is fixed (the tallest of the model's sizes)
    /\ termSize \in {s \in TerminalSizes : \A t \in TerminalSizes : s.rows >= t.rows}
    /\ operations = <<>>
    /\ last = [event |-> "construct", level |-> currentLevel, mode |-> "none",
               index |-> Null, selectedId |-> <<>>, run |-> 0, down |-> <<>>,
               size |-> termSize]

\* history.add(exchange)
HistoryAdd ==
    /\ nextId <= MaxExchanges
    /\ \E shape \in ExchangeShapes :
        LET exchange == Exchange(nextId, shape)
            r == Add(exchanges, maxSize, handlers, exchange)
        IN  /\ exchanges' = r.exchanges
            /\ notified' = r.notified
            /\ added' = Append(added, exchange)
    /\ nextId' = nextId + 1
    /\ last' = Event("add", 0)
    /\ UNCHANGED <<ioVars, maxSize, handlers, rendererVars>>

\* What a history call is remembered by: the event, the argument and the returned
\* value of a read, and the history as it was before the call.
HistoryCall(name, argument, returned) ==
    [event |-> name, argument |-> argument, returned |-> returned,
     before |-> [exchanges |-> exchanges, maxSize |-> maxSize, handlers |-> handlers,
                 notified |-> notified]]

\* history.clear()
HistoryClear ==
    /\ exchanges' = Clear(exchanges)
    /\ added' = <<>>
    /\ last' = HistoryCall("clear", <<>>, <<>>)
    /\ UNCHANGED <<ioVars, maxSize, handlers, notified, nextId, rendererVars>>

\* The arguments the reads are called with: from below 0 to above every size.
Indices == (0 - 2)..(MaxCapacity + 1)

\* history.getByIndex(index)
HistoryGetByIndex ==
    /\ \E index \in Indices :
        last' = HistoryCall("getByIndex", index, GetByIndex(exchanges, index))
    /\ UNCHANGED <<ioVars, historyVars, rendererVars>>

\* history.getRecent(count)
HistoryGetRecent ==
    /\ \E count \in Indices :
        last' = HistoryCall("getRecent", count, GetRecent(exchanges, count))
    /\ UNCHANGED <<ioVars, historyVars, rendererVars>>

\* history.onExchangeAdded(handler)
HistoryOnExchangeAdded ==
    /\ Len(handlers) < MaxHandlers
    /\ \E handler \in Listeners : handlers' = OnExchangeAdded(handlers, handler)
    /\ last' = Event("onExchangeAdded", 0)
    /\ UNCHANGED <<ioVars, maxSize, exchanges, notified, added, nextId, rendererVars>>

NextHistory ==
    \/ HistoryAdd
    \/ HistoryClear
    \/ HistoryOnExchangeAdded

SpecHistory == InitHistory /\ [][NextHistory]_vars

(***************************************************************************)
(* The reads of ExchangeHistory: a history without listeners, filled and   *)
(* cleared, and read through getByIndex and getRecent in every state.      *)
(***************************************************************************)
NextReads ==
    \/ HistoryAdd
    \/ HistoryClear
    \/ HistoryGetByIndex
    \/ HistoryGetRecent

SpecReads == InitHistory /\ [][NextReads]_vars

(***************************************************************************)
(* Properties                                                              *)
(***************************************************************************)
\* The most recent event ended in a redraw of the state it left.
Redrawn ==
    operations = Redraw(termSize, exchanges, maxSize, currentLevel, selectionMode,
                        selectedIndex)

Ids(buf) == [i \in 1..Len(buf) |-> buf[i].id]

\* C1 (SpecHistory). Eviction: with capacity N >= 1, after more than N add() calls
\* and no clear, size() is N and getAll() is exactly the last N added exchanges in
\* insertion order.
EvictionKeepsLastAdded ==
    (maxSize >= 1 /\ Len(added) > maxSize) =>
        /\ Len(exchanges) = maxSize
        /\ exchanges = SubSeq(added, Len(added) - maxSize + 1, Len(added))

\* Capacity 3 and the exchanges 1, 2, 3, 4 added in order: getAll() is 2, 3, 4.
EvictionScenario ==
    maxSize = 3 /\ Ids(added) = <<1, 2, 3, 4>> /\ Ids(exchanges) = <<2, 3, 4>>

\* C2 (Spec). Selection bounds: whenever selectedIndex is present,
\* 0 <= selectedIndex < history.size().
SelectionInBounds ==
    selectedIndex # Null =>
        Val(selectedIndex) >= 0 /\ Val(selectedIndex) < Len(exchanges)

\* A selection on the newest item of a full history that has already evicted.
SelectionOnFullHistory ==
    /\ selectedIndex = Some(Len(exchanges) - 1)
    /\ Len(exchanges) = maxSize
    /\ nextId > maxSize + 1
    /\ last.event = "selectDown"

\* C3 (Spec), as claimed. When a selection is active and a new exchange arrives, the
\* selected index is preserved and still refers to the exchange (same id) it
\* referred to before the arrival.
SelectionFollowsItsExchange ==
    (last.event = "exchange" /\ last.mode = "active") =>
        /\ selectedIndex = last.index
        /\ SelectedId(exchanges, selectedIndex) = last.selectedId

\* C4 (Spec), as claimed. A level change leaves the selection mode and the selected
\* index unchanged.
LevelChangeKeepsSelection ==
    (last.event \in {"increment", "decrement"} /\ currentLevel # last.level) =>
        /\ selectionMode = last.mode
        /\ selectedIndex = last.index

\* C5 (SpecHistory). On every add(exchange) each registered handler is called exactly
\* once, in registration order, with the added exchange, and sees the buffer after
\* the eviction and the append.
HandlersSeeTheAddedExchange ==
    last.event = "add" =>
        /\ Len(notified) = Len(handlers)
        /\ \A i \in 1..Len(handlers) :
            /\ notified[i].handler = handlers[i]
            /\ notified[i].exchange = added[Len(added)]
            /\ notified[i].seen = exchanges
            /\ notified[i].seen[Len(notified[i].seen)] = notified[i].exchange

\* Two different handlers notified of an add that evicted the oldest exchange.
TwoHandlersNotifiedOnEviction ==
    /\ last.event = "add"
    /\ Len(notified) = 2
    /\ notified[1].handler # notified[2].handler
    /\ maxSize >= 1
    /\ Len(added) > maxSize

SelectUpEntersAtNewest ==
    (last.event = "selectUp" /\ last.mode = "none") =>
        IF Len(exchanges) > 0
        THEN /\ selectionMode = "active"
             /\ selectedIndex = Some(Len(exchanges) - 1)
             /\ Redrawn
        ELSE /\ selectionMode = "none"
             /\ selectedIndex = Null
             /\ operations = <<>>

\* selectUp has just entered the selection over a history of several items.
SelectUpEntered ==
    /\ last.event = "selectUp"
    /\ last.mode = "none"
    /\ Len(exchanges) >= 2
    /\ selectionMode = "active"

\* C8 (Spec). Repeated selectUp: k >= 1 consecutive selectUp calls starting in mode
\* none over N >= 1 items leave the selected index at max(0, N - k). (A run longer
\* than MaxRun is counted as MaxRun, which is more than any N.)
RepeatedSelectUpStopsAtFirst ==
    (last.event = "selectUp" /\ last.run >= 1 /\ Len(exchanges) >= 1) =>
        /\ selectionMode = "active"
        /\ selectedIndex = Some(Max(0, Len(exchanges) - last.run))

\* A run of selectUp calls longer than the history, the selection on the first item.
SelectUpRunPastFirst ==
    /\ last.event = "selectUp"
    /\ Len(exchanges) >= 2
    /\ last.run > Len(exchanges)
    /\ selectedIndex = Some(0)

\* C9 (Spec), as claimed. selectUp in mode active at index 0 changes neither the mode
\* nor the index and issues no terminal operation.
SelectUpAtFirstDrawsNothing ==
    (last.event = "selectUp" /\ last.mode = "active" /\ last.index = Some(0)) =>
        /\ selectionMode = "active"
        /\ selectedIndex = Some(0)
        /\ operations = <<>>

\* C10 (Spec). selectDown in mode none is a no-op for every history content: the mode
\* stays none, the index absent and nothing is drawn.
SelectDownWithoutSelectionIsNoOp ==
    (last.event = "selectDown" /\ last.mode = "none") =>
        /\ selectionMode = "none"
        /\ selectedIndex = Null
        /\ operations = <<>>

\* selectDown pressed without a selection over a non-empty history.
SelectDownWithoutSelection ==
    /\ last.event = "selectDown"
    /\ last.mode = "none"
    /\ Len(exchanges) >= 1

\* C11 (Spec). selectDown in mode active: below the last item the index grows by
\* one and the mode stays active; at the last item the mode becomes none and the
\* index absent; a redraw follows in both cases.
SelectDownMovesOrExits ==
    (last.event = "selectDown" /\ last.mode = "active" /\ last.index # Null) =>
        /\ IF Val(last.index) < Len(exchanges) - 1
           THEN selectionMode = "active" /\ selectedIndex = Some(Val(last.index) + 1)
           ELSE selectionMode = "none" /\ selectedIndex = Null
        /\ Redrawn

\* selectDown has just left the selection from the last of at least two items.
SelectDownLeftAtLast ==
    /\ last.event = "selectDown"
    /\ last.mode = "active"
    /\ Len(exchanges) >= 2
    /\ last.index = Some(Len(exchanges) - 1)
    /\ selectionMode = "none"

\* C12 (Spec). Repeated selectDown: k consecutive selectDown calls that began with
\* an active selection at index i over N items leave the selection at i + k while
\* k < N - i, and from the (N - i)th call on the mode is none and the index absent.
RepeatedSelectDownLeavesSelection ==
    (last.event = "selectDown" /\ last.down # <<>>) =>
        IF last.down[2] < Len(exchanges) - last.down[1]
        THEN selectionMode = "active" /\ selectedIndex = Some(last.down[1] + last.down[2])
        ELSE selectionMode = "none" /\ selectedIndex = Null

\* A run of selectDown that began at the oldest of at least two items and went on
\* past the call that left the selection.
SelectDownRunPastLast ==
    /\ last.event = "selectDown"
    /\ last.down # <<>>
    /\ Len(exchanges) >= 2
    /\ last.down[1] = 0
    /\ last.down[2] > Len(exchanges)

\* C13 (Spec). resetSelection: in mode active the mode becomes none, the index
\* absent, and a redraw follows; in mode none nothing changes and nothing is drawn.
\* The detail level is the same afterwards in both cases.
ResetSelectionLeavesSelection ==
    last.event = "resetSelection" =>
        /\ currentLevel = last.level
        /\ selectionMode = "none"
        /\ selectedIndex = Null
        /\ IF last.mode = "active"
           THEN Redrawn
           ELSE last.index = Null /\ operations = <<>>

\* resetSelection has just ended a selection at a level other than the default.
ResetSelectionFromActive ==
    /\ last.event = "resetSelection"
    /\ last.mode = "active"
    /\ last.index # Null
    /\ currentLevel # DEFAULT

\* C14 (Spec). Redraw suppression: setLevel with a level equal in value to the
\* current one, as incrementLevel at level 6 and decrementLevel at level 1 give it,
\* changes no renderer state and issues no terminal operation.
SetLevelToSameLevelIsNoOp ==
    /\ \A level \in Levels, mode \in {"none", "active"},
          index \in {Null} \cup {Some(i) : i \in 0..MaxCapacity} :
            SetLevel(level, level, mode, index)
                = [level |-> level, mode |-> mode, index |-> index, redraw |-> FALSE]
    /\ (\/ last.event = "increment" /\ last.level = MAX
        \/ last.event = "decrement" /\ last.level = MIN) =>
            /\ currentLevel = last.level
            /\ selectionMode = last.mode
            /\ selectedIndex = last.index
            /\ operations = <<>>

\* incrementLevel at the highest level while an exchange is selected.
IncrementAtHighestLevelWhileSelecting ==
    /\ last.event = "increment"
    /\ last.level = MAX
    /\ last.mode = "active"
    /\ last.index # Null

\* The terminal operations of the redraw the last event made (initialize() clears
\* the screen before its redraw); empty when the event drew nothing.
DrawnOperations ==
    IF operations # <<>> /\ Head(operations) = ClearScreen
    THEN Tail(operations)
    ELSE operations

\* The positions in ops of the writes into the viewport.
ViewportWrites(ops) ==
    {i \in 1..Len(ops) : ops[i].op = "write" /\ ops[i].text.kind = "viewport"}

ExchangeAndResizeRedraw ==
    last.event \in {"exchange", "resize"} =>
        /\ Redrawn
        /\ operations # <<>>

\* An exchange has just arrived while an exchange was selected at the lowest level.
ExchangeWhileSelecting ==
    /\ last.event = "exchange"
    /\ last.mode = "active"
    /\ last.level = MIN

\* The regions of a terminal of 24 rows and of one of 10 rows, and the redraw of a
\* history of answered exchanges at the highest level on the 10-row terminal.
ResizeScenario ==
    LET scenarioSize == [rows |-> 10, cols |-> 40]
        scenarioOps == Redraw(scenarioSize,
                              [i \in 1..MaxCapacity |->
                                  Exchange(i, [response |-> TRUE, requestHeaders |-> 1,
                                               responseHeaders |-> 1, requestBody |-> 0,
                                               responseBody |-> 2])],
                              MaxCapacity, MAX, "none", Null)
    IN  /\ CalculateRegions([rows |-> 24, cols |-> 80]).viewportHeight = 22
        /\ CalculateRegions(scenarioSize).viewportHeight = 8
        /\ Cardinality(ViewportWrites(scenarioOps)) = 8
        /\ \A i \in ViewportWrites(scenarioOps) :
                scenarioOps[i - 2].row \in 2..9

\* C17 (Spec). No stale geometry: every redraw takes its regions from the terminal
\* size of the moment of the redraw: viewport lines go to rows 2..rows - 1 only, at
\* most viewportHeight of them and exactly viewportHeight when the lines overflow
\* it, cut to the current width, and the footer goes to the current last row. A
\* terminal of 24 rows has viewport height 22, and once it has 10 rows a redraw of
\* an overflowing history uses height 8 and writes no viewport line below row 9.
NoStaleGeometry ==
    LET ops == DrawnOperations
        regions == CalculateRegions(termSize)
        lineCount == Len(AllLines(Formatted(exchanges, currentLevel, selectionMode,
                                            selectedIndex)))
    IN  /\ ResizeScenario
        /\ ops # <<>> =>
            /\ \A i \in ViewportWrites(ops) :
                    /\ ops[i - 2].op = "moveCursor"
                    /\ ops[i - 2].row \in 2..(termSize.rows - 1)
                    /\ ops[i].text.maxWidth = termSize.cols
            /\ Cardinality(ViewportWrites(ops)) <= regions.viewportHeight
            /\ (termSize.rows >= 3 /\ currentLevel > MIN /\ exchanges # <<>>) =>
                    Cardinality(ViewportWrites(ops)) = Min(regions.viewportHeight, lineCount)
            /\ ops[Len(ops) - 2] = MoveCursor(termSize.rows, 1)
            /\ ops[Len(ops)].text.maxLen = termSize.cols - 1

\* The terminal has just shrunk from eight rows to four while the history held more
\* lines than the old viewport could show.
ShrunkWhileOverflowing ==
    /\ last.event = "resize"
    /\ last.size.rows = 8
    /\ termSize.rows = 4
    /\ currentLevel > MIN
    /\ Len(AllLines(Formatted(exchanges, currentLevel, selectionMode, selectedIndex)))
           > CalculateRegions(last.size).viewportHeight

\* C18 (Spec), as claimed. Empty history: at every terminal size a redraw of an
\* empty history writes exactly one viewport line, the "waiting" placeholder on
\* viewport row 0 (terminal row 2).
EmptyHistoryWritesWaitingLine ==
    LET ops == DrawnOperations
    IN  (ops # <<>> /\ exchanges = <<>>) =>
            /\ Cardinality(ViewportWrites(ops)) = 1
            /\ \A i \in ViewportWrites(ops) :
                    /\ ops[i].text.text = [waiting |-> TRUE]
                    /\ ops[i - 2] = MoveCursor(2, 1)

\* The items as the redraw of the present state formats them.
FormattedNow == Formatted(exchanges, currentLevel, selectionMode, selectedIndex)

\* The first and last flattened line (0-based) of the selected item.
SelectedItemSpan == SelectedSpan(FormattedNow, Val(selectedIndex), 0, 0)

\* Levels 2-6: the window [startIndex, endIndex) of flattened lines a redraw of the
\* present state hands to the viewport when a selection is active and the lines
\* overflow it.
RenderedWindow ==
    SelectionWindow(Len(AllLines(FormattedNow)),
                    CalculateRegions(termSize).viewportHeight, SelectedItemSpan)

\* Levels 2-6: a redraw has just drawn an active selection whose flattened lines
\* overflow the viewport.
SelectionOverflowsViewport ==
    /\ DrawnOperations # <<>>
    /\ currentLevel > MIN
    /\ selectionMode = "active"
    /\ selectedIndex # Null
    /\ Len(AllLines(FormattedNow)) > CalculateRegions(termSize).viewportHeight

\* The whole span of the selected item lies inside the rendered window, and on a
\* terminal with viewport rows every line of the item is written.
SelectedItemRendered ==
    /\ RenderedWindow.startIndex <= SelectedItemSpan.start
    /\ SelectedItemSpan.end < RenderedWindow.endIndex
    /\ RenderedWindow.endIndex - RenderedWindow.startIndex
           <= CalculateRegions(termSize).viewportHeight
    /\ termSize.rows >= 3 =>
           Cardinality({i \in ViewportWrites(DrawnOperations) :
                           DrawnOperations[i].text.text.selected})
               = SelectedItemSpan.end - SelectedItemSpan.start + 1

RECURSIVE WrittenTexts(_)
WrittenTexts(ops) ==
    IF ops = <<>> THEN <<>>
    ELSE IF Head(ops).op = "write" /\ Head(ops).text.kind = "viewport"
         THEN <<Head(ops).text.text>> \o WrittenTexts(Tail(ops))
         ELSE WrittenTexts(Tail(ops))

\* The last min(n, Len(s)) elements of s, in order.
Newest(s, n) == SubSeq(s, Len(s) - Min(n, Len(s)) + 1, Len(s))

ESC == "ESC"

\* AnsiColors.reset, AnsiColors.dim, AnsiColors.bold
AnsiReset == <<ESC, "[", "0", "m">>
AnsiDim == <<ESC, "[", "2", "m">>
AnsiBold == <<ESC, "[", "1", "m">>

Ellipsis == <<".", ".", ".">>

\* The characters [0-9;] of ansiPattern.
SgrParameters == {"0", "1", "2", "3", "4", "5", "6", "7", "8", "9", ";"}

\* ansiPattern, [0-9;]*: the position after the longest run of parameter
\* characters that starts at position j.
RECURSIVE ParametersEnd(_, _)
ParametersEnd(text, j) ==
    IF j <= Len(text) /\ text[j] \in SgrParameters
    THEN ParametersEnd(text, j + 1)
    ELSE j

\* ansiPattern, \x1b\[[0-9;]*m: the position of the closing m of the match that
\* starts at position i, or 0 when there is no match at i.
AnsiMatchEnd(text, i) ==
    IF i + 1 <= Len(text) /\ text[i] = ESC /\ text[i + 1] = "["
    THEN LET j == ParametersEnd(text, i + 2)
         IN  IF j <= Len(text) /\ text[j] = "m" THEN j ELSE 0
    ELSE 0

\* text.replace(ansiPattern, "") from position i on.
RECURSIVE StripFrom(_, _)
StripFrom(text, i) ==
    IF i > Len(text) THEN <<>>
    ELSE IF AnsiMatchEnd(text, i) # 0
         THEN StripFrom(text, AnsiMatchEnd(text, i) + 1)
         ELSE <<text[i]>> \o StripFrom(text, i + 1)

\* text.replace(ansiPattern, "")
Strip(text) == StripFrom(text, 1)

\* truncateToWidth, the inner loop looking for the end of an escape sequence: the
\* position after the first m at or after j, or after the text when there is none.
RECURSIVE EscapeEnd(_, _)
EscapeEnd(text, j) ==
    IF j <= Len(text) /\ text[j] # "m"
    THEN EscapeEnd(text, j + 1)
    ELSE IF j <= Len(text) THEN j + 1 ELSE j

\* truncateToWidth, the loop copying characters until targetVisibleLength visible
\* ones are copied; i is the position of the next character.
RECURSIVE TruncateLoop(_, _, _, _, _)
TruncateLoop(text, targetVisibleLength, result, visibleCount, i) ==
    IF ~(i <= Len(text) /\ visibleCount < targetVisibleLength) THEN result
    ELSE IF text[i] = ESC /\ i + 1 <= Len(text) /\ text[i + 1] = "["
         THEN LET j == EscapeEnd(text, i + 2)
              IN  TruncateLoop(text, targetVisibleLength,
                               result \o SubSeq(text, i, j - 1), visibleCount, j)
         ELSE TruncateLoop(text, targetVisibleLength, Append(result, text[i]),
                           visibleCount + 1, i + 1)

\* truncateToWidth cutting after maxWidth - 3 characters of any kind.
TruncateToWidthByCharacters(text, maxWidth) ==
    IF Len(Strip(text)) <= maxWidth THEN text
    ELSE SubSeq(text, 1, Min(Len(text), Max(0, maxWidth - 3))) \o Ellipsis \o AnsiReset

\* truncateToWidth(text, maxWidth)
TruncateToWidth(text, maxWidth) ==
    IF Len(Strip(text)) <= maxWidth THEN text
    ELSE TruncateLoop(text, maxWidth - 3, <<>>, 0, 1) \o Ellipsis \o AnsiReset

\* String(n) for a natural number n.
RECURSIVE Digits(_)
Digits(n) ==
    LET digit == <<"0", "1", "2", "3", "4", "5", "6", "7", "8", "9">>
    IN  IF n < 10 THEN <<digit[n + 1]>>
        ELSE Digits(n \div 10) \o <<digit[(n % 10) + 1]>>

\* renderFooter: the selection indicator, "[p/t] " in bold when an item is selected.
SelectionIndicator(selectionState) ==
    IF selectionState.mode = "active" /\ selectionState.selectedItem # Null
    THEN AnsiBold \o <<"[">> \o Digits(Val(selectionState.selectedItem)) \o <<"/">>
         \o Digits(selectionState.totalItems) \o <<"]">> \o AnsiReset \o <<" ">>
    ELSE <<>>

\* renderFooter: the hint of the selection keys.
ModeHint(selectionState) ==
    (IF selectionState.mode = "active"
     THEN <<"E", "S", "C", " ", "e", "x", "i", "t", " ", "bullet", " ">>
     ELSE <<>>)
    \o <<"up", "down", " ", "s", "e", "l", "e", "c", "t", " ", "bullet", " ">>

\* renderFooter: the assembled line before it is cut.
Controls(exchangeCount, historyCapacity, storagePath, selectionState) ==
    AnsiDim \o SelectionIndicator(selectionState) \o ModeHint(selectionState)
    \o <<"+", "/", "-", " ", "l", "e", "v", "e", "l", " ", "bullet", " ",
         "q", " ", "q", "u", "i", "t", " ", "bullet", " ">>
    \o Digits(exchangeCount) \o <<"/">> \o Digits(historyCapacity)
    \o <<" ", "r", "e", "q", "u", "e", "s", "t", "s", " ", "bullet", " ">>
    \o storagePath \o AnsiReset

\* String.prototype.substring(start, end): arguments below 0 count as 0, above the
\* length as the length, and are swapped when start > end.
Substring(text, start, end) ==
    LET from == Min(Len(text), Max(0, start))
        to == Min(Len(text), Max(0, end))
    IN  SubSeq(text, Min(from, to) + 1, Max(from, to))

\* renderFooter: the line cut to maxLen.
TruncatedControls(controls, maxLen) ==
    IF Len(controls) > maxLen
    THEN Substring(controls, 0, maxLen - 3) \o Ellipsis
    ELSE controls

(***************************************************************************)
(* SpecLayout: TuiLayout driven directly through its public methods over a *)
(* terminal whose size is set between the calls, as the unit tests drive   *)
(* it. `operations` holds the terminal operations of the last call and     *)
(* `last` the call with its arguments, what it returned and the texts it   *)
(* passed to terminal.write().                                             *)
(* SpecTruncate: one call writeViewportLine(0, text) on a terminal of three *)
(* rows, for every width and every text made of a few pieces: characters,  *)
(* runs of characters, whole escape sequences and fragments of escape      *)
(* sequences. The text of the call to come is in `last`.                   *)
(***************************************************************************)
MaxRows == 3
MaxCols == 4
MaxTokens == 4

\* The sizes a terminal reports: none to a few rows and columns, and two wide ones.
LayoutSizes ==
    {[rows |-> r, cols |-> c] : r \in 0..(MaxRows + 1), c \in (0..MaxCols) \cup {55, 90}}

TruncateSizes == {[rows |-> 3, cols |-> c] : c \in 0..MaxCols}

Tokens == {<<"a">>, <<"a", "a", "a">>, <<ESC>>, <<"[">>, <<"m">>, AnsiReset}

\* The texts of at most n tokens.
RECURSIVE TextsOf(_)
TextsOf(n) ==
    IF n = 0 THEN {<<>>}
    ELSE {<<>>} \cup {t \o u : t \in Tokens, u \in TextsOf(n - 1)}

Texts == TextsOf(MaxTokens)

\* A few texts: the empty one, the tokens, and a plain one wider than the narrow
\* terminals.
SampleTexts == TextsOf(1) \cup {[i \in 1..(MaxCols + 2) |-> "a"]}

StoragePaths == {<<"/", "t">>, <<"/", "t", "m", "p">>}

\* No history and no renderer is there: their variables keep these values.
Detached ==
    /\ maxSize = 1
    /\ exchanges = <<>>
    /\ handlers = <<>>
    /\ notified = <<>>
    /\ added = <<>>
    /\ nextId = 1
    /\ currentLevel = DEFAULT
    /\ selectionMode = "none"
    /\ selectedIndex = Null

InitLayout ==
    /\ Detached
    /\ IoIdle
    /\ termSize \in LayoutSizes
    /\ operations = <<>>
    /\ last = [event |-> "construct"]

InitTruncate ==
    /\ Detached
    /\ IoIdle
    /\ operations = <<>>
    /\ termSize \in TruncateSizes
    /\ \E text \in Texts : last = [event |-> "construct", text |-> text]


\* layout.writeViewportLine(viewportRow, text)
CallWriteViewportLine(viewportRows, texts) ==
    /\ \E viewportRow \in viewportRows, text \in texts :
        /\ operations' = WriteViewportLine(termSize, viewportRow, text)
        /\ last' = [event |-> "writeViewportLine", viewportRow |-> viewportRow,
                    text |-> text,
                    returned |-> ViewportLineFits(termSize, viewportRow),
                    writtenText |->
                        IF ViewportLineFits(termSize, viewportRow)
                        THEN <<TruncateToWidth(text, CalculateRegions(termSize).width)>>
                        ELSE <<>>]
    /\ UNCHANGED <<ioVars, historyVars, currentLevel, selectionMode, selectedIndex, termSize>>

\* MockTerminal.setSize(rows, cols)
LayoutSetSize ==
    /\ termSize' \in LayoutSizes \ {termSize}
    /\ operations' = <<>>
    /\ last' = [event |-> "setSize"]
    /\ UNCHANGED <<ioVars, historyVars, currentLevel, selectionMode, selectedIndex>>

LayoutWriteViewportLine == CallWriteViewportLine(0..MaxRows, SampleTexts)

\* layout.clearViewport()
LayoutClearViewport ==
    /\ operations' = ClearViewport(termSize)
    /\ last' = [event |-> "clearViewport", writtenText |-> <<>>]
    /\ UNCHANGED <<ioVars, historyVars, currentLevel, selectionMode, selectedIndex, termSize>>

\* layout.getRegions()
LayoutGetRegions ==
    /\ operations' = <<>>
    /\ last' = [event |-> "getRegions", returned |-> CalculateRegions(termSize)]
    /\ UNCHANGED <<ioVars, historyVars, currentLevel, selectionMode, selectedIndex, termSize>>

\* layout.renderFooter(exchangeCount, historyCapacity, storagePath, selectionState)
LayoutRenderFooter ==
    /\ \E historyCapacity \in 1..MaxCapacity, storagePath \in StoragePaths :
       \E exchangeCount \in 0..historyCapacity :
       \E selectionState \in
              {[mode |-> "none", selectedItem |-> Null, totalItems |-> exchangeCount]}
              \cup {[mode |-> "active", selectedItem |-> Some(p),
                     totalItems |-> exchangeCount] : p \in 1..exchangeCount} :
        /\ operations' = RenderFooter(termSize, exchangeCount, historyCapacity,
                                      selectionState)
        /\ last' = [event |-> "renderFooter", exchangeCount |-> exchangeCount,
                    historyCapacity |-> historyCapacity, storagePath |-> storagePath,
                    selectionState |-> selectionState,
                    writtenText |->
                        <<TruncatedControls(
                            Controls(exchangeCount, historyCapacity, storagePath,
                                     selectionState),
                            CalculateRegions(termSize).width - 1)>>]
    /\ UNCHANGED <<ioVars, historyVars, currentLevel, selectionMode, selectedIndex, termSize>>

NextLayout ==
    \/ LayoutSetSize
    \/ LayoutWriteViewportLine
    \/ LayoutClearViewport
    \/ LayoutGetRegions
    \/ LayoutRenderFooter

SpecLayout == InitLayout /\ [][NextLayout]_vars

TruncateWriteViewportLine ==
    /\ last.event = "construct"
    /\ CallWriteViewportLine({0}, {last.text})

NextTruncate == TruncateWriteViewportLine

SpecTruncate == InitTruncate /\ [][NextTruncate]_vars

\* writeViewportLine has just written a text.
ViewportLineWritten ==
    /\ last.event = "writeViewportLine"
    /\ last.returned

\* writeViewportLine has just written a text with more visible characters than the
\* terminal is wide.
ViewportLineCut ==
    /\ ViewportLineWritten
    /\ Len(Strip(last.text)) > termSize.cols

\* C22 (SpecTruncate), as claimed. Truncation round-trip: for every text and every
\* width, a text whose visible length is at most the width is returned unchanged,
\* escape sequences included, and for a longer one the visible length of the result
\* is exactly the width.
TruncationRoundTrip ==
    ViewportLineWritten =>
        IF Len(Strip(last.text)) <= termSize.cols
        THEN last.writtenText = <<last.text>>
        ELSE Len(Strip(last.writtenText[1])) = termSize.cols

\* C23 (SpecTruncate). Style-safe truncation: whenever truncation cuts a text the
\* result is a prefix of the text in which every escape sequence that begins in it
\* is whole, followed by the three-character ellipsis and then the style reset as
\* the last element.
TruncationKeepsEscapesAndResets ==
    ViewportLineCut =>
        \E k \in 0..Len(last.text) :
            /\ last.writtenText = <<SubSeq(last.text, 1, k) \o Ellipsis \o AnsiReset>>
            /\ \A i \in 1..k :
                    AnsiMatchEnd(last.text, i) # 0 => AnsiMatchEnd(last.text, i) <= k

\* A text beginning with a style sequence has been cut on the terminal of four
\* columns: the sequence and one visible character are kept.
CutAfterStyleSequence ==
    /\ ViewportLineCut
    /\ termSize.cols = 4
    /\ Len(last.text) > 5
    /\ SubSeq(last.text, 1, 5) = AnsiReset \o <<"a">>
    /\ last.writtenText = <<AnsiReset \o <<"a">> \o Ellipsis \o AnsiReset>>

\* C24 (SpecLayout), as claimed. Footer truncation: the footer line renderFooter
\* writes never has more visible characters than the terminal is wide; it is cut,
\* with an ellipsis, only when its visible length (style sequences not counted)
\* exceeds the room the footer has; and no style sequence is cut.
FooterCutByVisibleLength ==
    last.event = "renderFooter" =>
        LET controls == Controls(last.exchangeCount, last.historyCapacity,
                                 last.storagePath, last.selectionState)
            written == last.writtenText[1]
        IN  /\ Len(Strip(written)) <= termSize.cols
            /\ written # controls =>
                   /\ Len(Strip(controls)) > termSize.cols - 1
                   /\ \E k \in 0..Len(controls) :
                          /\ written = SubSeq(controls, 1, k) \o Ellipsis
                          /\ \A i \in 1..k :
                                 AnsiMatchEnd(controls, i) # 0
                                     => AnsiMatchEnd(controls, i) <= k

\* C25 (SpecLayout). writeViewportLine(relativeRow, text): when row 2 + relativeRow
\* is past the last viewport row rows - 1 it returns false and issues no terminal
\* operation; otherwise it moves to that row, clears it, writes the text cut to the
\* width and returns true; the row is never the header row or the footer row.
ViewportLineOnViewportRowOnly ==
    last.event = "writeViewportLine" =>
        IF 2 + last.viewportRow > termSize.rows - 1
        THEN /\ ~last.returned
             /\ operations = <<>>
             /\ last.writtenText = <<>>
        ELSE /\ last.returned
             /\ operations = <<MoveCursor(2 + last.viewportRow, 1), ClearLine,
                                Write([kind |-> "viewport", text |-> last.text,
                                       maxWidth |-> termSize.cols])>>
             /\ last.writtenText = <<TruncateToWidth(last.text, termSize.cols)>>
             /\ 2 + last.viewportRow # 1
             /\ 2 + last.viewportRow # termSize.rows

\* On the terminal of three rows writeViewportLine(1, text) has just refused the
\* row that is the footer's.
ViewportLineRefusedOnFooterRow ==
    /\ last.event = "writeViewportLine"
    /\ termSize.rows = 3
    /\ last.viewportRow = 1
    /\ ~last.returned

\* The rows ops clears: those a cursor move to column 1 is followed by a clearLine.
ClearedRows(ops) ==
    {ops[i].row : i \in {j \in 1..(Len(ops) - 1) :
                            /\ ops[j].op = "moveCursor"
                            /\ ops[j].col = 1
                            /\ ops[j + 1] = ClearLine}}

\* C26 (SpecLayout). clearViewport, for every terminal size: it clears every row of
\* 2..rows - 1 and no other row, neither row 1 nor the footer row, writes nothing,
\* and ends with the cursor moved to the first viewport row.
ClearViewportClearsViewportOnly ==
    last.event = "clearViewport" =>
        /\ ClearedRows(operations) = 2..(termSize.rows - 1)
        /\ Cardinality({i \in 1..Len(operations) : operations[i] = ClearLine})
               = Cardinality(2..(termSize.rows - 1))
        /\ \A i \in 1..Len(operations) : operations[i].op \in {"moveCursor", "clearLine"}
        /\ operations # <<>>
        /\ operations[Len(operations)] = MoveCursor(2, 1)

\* clearViewport on the tallest terminal, which has more than one viewport row.
ViewportOfSeveralRowsCleared ==
    /\ last.event = "clearViewport"
    /\ termSize.rows = MaxRows + 1
    /\ Len(operations) > 3

\* C27 (SpecLayout). Region geometry is a function of the terminal size alone:
\* headerRow = 1, footerRow = rows, viewportStartRow = 2, viewportEndRow = rows - 1,
\* viewportHeight = max(1, rows - 2), width = cols, for every size, those of two
\* rows or fewer included, where the height is 1.
RegionsOfSize ==
    last.event = "getRegions" =>
        last.returned = [headerRow |-> 1,
                         viewportStartRow |-> 2,
                         viewportEndRow |-> termSize.rows - 1,
                         viewportHeight |-> IF termSize.rows - 2 >= 1
                                            THEN termSize.rows - 2 ELSE 1,
                         footerRow |-> termSize.rows,
                         width |-> termSize.cols]

\* getRegions on a terminal without rows: the height is 1.
RegionsOfTerminalWithoutRows ==
    /\ last.event = "getRegions"
    /\ termSize.rows = 0
    /\ last.returned.viewportHeight = 1

\* The line renderFooter assembles for the footer a redraw has drawn, before it is
\* cut to the width; the storage path, fixed for a run, is "/tmp".
FooterControlsDrawn ==
    LET footer == DrawnOperations[Len(DrawnOperations)].text
    IN  Controls(footer.count, footer.capacity, <<"/", "t", "m", "p">>,
                 [mode |-> IF footer.hint = "ESC exit" THEN "active" ELSE "none",
                  selectedItem |-> IF footer.indicator # <<>>
                                   THEN Some(footer.indicator[1]) ELSE Null,
                  totalItems |-> IF footer.indicator # <<>>
                                 THEN footer.indicator[2] ELSE footer.count])

MaxBeyond == 3
MaxInstances == 6

Num(halves) == [nan |-> FALSE, halves |-> halves]
NaN == [nan |-> TRUE, halves |-> 0]

\* The numbers given to of(): NaN and the multiples of one half from MaxBeyond
\* halves below 0 to MaxBeyond halves above MAX.
JsNumbers == {NaN} \cup {Num(h) : h \in (0 - MaxBeyond)..(2 * MAX + MaxBeyond)}

\* Math.floor(x)
MathFloor(x) == IF x.nan THEN NaN ELSE Num(2 * (x.halves \div 2))

\* Math.min(a, b)
MathMin(a, b) == IF a.nan \/ b.nan THEN NaN ELSE IF a.halves <= b.halves THEN a ELSE b

\* Math.max(a, b)
MathMax(a, b) == IF a.nan \/ b.nan THEN NaN ELSE IF a.halves >= b.halves THEN a ELSE b

\* new DetailLevel(value), its reference being ref
Instance(ref, value) == [ref |-> ref, value |-> value]

\* DetailLevel.of(value), the new instance getting the reference fresh
Of(value, fresh) ==
    Instance(fresh, MathMax(Num(2 * MIN), MathMin(Num(2 * MAX), MathFloor(value))))

\* DetailLevel.default()
Default(fresh) == Instance(fresh, Num(2 * DEFAULT))

\* increment() returning a new instance of the same value at the highest level.
InstanceIncrementCopyingAtMax(this, fresh) ==
    IF ~this.value.nan /\ this.value.halves >= 2 * MAX
    THEN Instance(fresh, this.value)
    ELSE Instance(fresh, IF this.value.nan THEN NaN ELSE Num(this.value.halves + 2))

\* this.increment(), a new instance getting the reference fresh
InstanceIncrement(this, fresh) ==
    IF ~this.value.nan /\ this.value.halves >= 2 * MAX
    THEN this
    ELSE Instance(fresh, IF this.value.nan THEN NaN ELSE Num(this.value.halves + 2))

\* this.decrement(), a new instance getting the reference fresh
InstanceDecrement(this, fresh) ==
    IF ~this.value.nan /\ this.value.halves <= 2 * MIN
    THEN this
    ELSE Instance(fresh, IF this.value.nan THEN NaN ELSE Num(this.value.halves - 2))

\* The caller begins with DetailLevel.default(); no terminal is used.
InitLevel ==
    /\ Detached
    /\ IoIdle
    /\ termSize = [rows |-> 3, cols |-> 4]
    /\ operations = <<>>
    /\ last = [event |-> "default", returned |-> Default(1), allocated |-> 1]

\* level = DetailLevel.of(x)
LevelOf ==
    /\ last.allocated < MaxInstances
    /\ \E x \in JsNumbers :
        last' = [event |-> "of", argument |-> x,
                 returned |-> Of(x, last.allocated + 1),
                 allocated |-> last.allocated + 1]
    /\ UNCHANGED <<ioVars, historyVars, rendererVars>>

\* A call on the instance held that returns either the instance itself or a new
\* one: the caller holds what is returned.
LevelCall(event, returned) ==
    /\ returned.ref = last.returned.ref \/ last.allocated < MaxInstances
    /\ last' = [event |-> event, receiver |-> last.returned, returned |-> returned,
                allocated |-> IF returned.ref = last.returned.ref
                              THEN last.allocated ELSE last.allocated + 1]
    /\ UNCHANGED <<ioVars, historyVars, rendererVars>>

\* level = level.increment()
LevelIncrement ==
    LevelCall("increment", InstanceIncrement(last.returned, last.allocated + 1))

\* level = level.decrement()
LevelDecrement ==
    LevelCall("decrement", InstanceDecrement(last.returned, last.allocated + 1))

NextLevel ==
    \/ LevelOf
    \/ LevelIncrement
    \/ LevelDecrement

SpecLevel == InitLevel /\ [][NextLevel]_vars

\* The value of an instance is one of the levels 1..6.
IsLevel(instance) == \E l \in MIN..MAX : instance.value = Num(2 * l)

\* C29 (SpecLevel), as claimed. DetailLevel.of(x) always yields a level in 1..6:
\* max(1, min(6, floor(x))), so 1 for values below 1, 6 for values above 6, and
\* the floor of a value in between.
OfYieldsLevel ==
    last.event = "of" =>
        /\ IsLevel(last.returned)
        /\ ~last.argument.nan =>
               last.returned.value
                   = Num(2 * Max(MIN, Min(MAX, last.argument.halves \div 2)))

\* C30 (SpecLevel). increment and decrement saturate and are reference-stable:
\* increment at level 6 and decrement at level 1 return the very instance they
\* were called on; at any other level they return a level whose value is one more,
\* respectively one less; so the level a caller holds stays in 1..6 through any
\* sequence of increments and decrements.
IncrementAndDecrementSaturate ==
    (last.event \in {"increment", "decrement"} /\ IsLevel(last.receiver)) =>
        LET step == IF last.event = "increment" THEN 1 ELSE 0 - 1
            bound == IF last.event = "increment" THEN MAX ELSE MIN
        IN  /\ IF last.receiver.value = Num(2 * bound)
               THEN last.returned = last.receiver
               ELSE last.returned.value = Num(last.receiver.value.halves + 2 * step)
            /\ IsLevel(last.returned)

\* increment() has just been called on an instance of the highest level that of()
\* made, and returned that instance.
IncrementAtHighestLevelReturnsReceiver ==
    /\ last.event = "increment"
    /\ last.receiver.value = Num(2 * MAX)
    /\ last.receiver.ref > 1
    /\ last.returned.ref = last.receiver.ref

(***************************************************************************)
(* The reads (SpecReads) and the clear() (SpecHistory) of ExchangeHistory.  *)
(***************************************************************************)
\* The history as it is now, in the shape HistoryCall remembers it.
HistoryNow ==
    [exchanges |-> exchanges, maxSize |-> maxSize, handlers |-> handlers,
     notified |-> notified]

\* C31 (SpecReads). getByIndex(i) returns for every i, leaves the history as it
\* was, and returns the exchange at position i of getAll() when 0 <= i < size(),
\* an absent value when i < 0 or i >= size(), also on an empty history.
GetByIndexReadsPosition ==
    last.event = "getByIndex" =>
        /\ HistoryNow = last.before
        /\ (0 <= last.argument /\ last.argument < Len(exchanges)) =>
               last.returned = <<exchanges[last.argument + 1]>>
        /\ (last.argument < 0 \/ last.argument >= Len(exchanges)) =>
               last.returned = <<>>

\* getByIndex(-1) on a history of several exchanges.
GetByIndexBelowZeroOnFilledHistory ==
    /\ last.event = "getByIndex"
    /\ last.argument = 0 - 1
    /\ Len(exchanges) >= 2
    /\ last.returned = <<>>

\* C32 (SpecReads), as claimed. getRecent(n) returns, for every n >= 0, exactly
\* the last min(n, size()) exchanges, oldest of them first.
GetRecentReturnsNewest ==
    (last.event = "getRecent" /\ last.argument >= 0) =>
        LET k == Min(last.argument, Len(exchanges))
        IN  last.returned = SubSeq(exchanges, Len(exchanges) - k + 1, Len(exchanges))

\* C33 (SpecHistory). clear() leaves an empty buffer, calls no listener and keeps
\* the capacity and the registered listeners; every add, also one after a clear,
\* calls each registered listener once, in registration order.
ClearEmptiesWithoutNotifying ==
    /\ last.event = "clear" =>
           /\ exchanges = <<>>
           /\ Len(exchanges) = 0
           /\ notified = last.before.notified
           /\ maxSize = last.before.maxSize
           /\ handlers = last.before.handlers
    /\ last.event = "add" =>
           /\ Len(notified) = Len(handlers)
           /\ \A i \in 1..Len(handlers) : notified[i].handler = handlers[i]

\* clear() of a history that holds exchanges and has notified its listeners.
ClearOfFilledHistoryWithListeners ==
    /\ last.event = "clear"
    /\ last.before.exchanges # <<>>
    /\ Len(handlers) = MaxHandlers
    /\ notified # <<>>

(***************************************************************************)
(* Status categories. formatExchange is called once for an exchange whose  *)
(* response is absent or carries any status code, at any detail level; of  *)
(* what it returns only the category is kept.                              *)
(***************************************************************************)
\* The largest status code of the model; the codes run from -1 to MaxStatus.
MaxStatus == 601

\* exchange.response?.statusCode ?? null: Null without a response.
StatusCodes == {Null} \cup {Some(c) : c \in (0 - 1)..MaxStatus}

\* Mutant of categorizeStatus(): each bucket takes its upper bound in (<= for <).
CategorizeStatusInclusive(statusCode) ==
    IF statusCode = Null THEN "unreachable"
    ELSE IF Val(statusCode) >= 100 /\ Val(statusCode) <= 200 THEN "informational"
    ELSE IF Val(statusCode) >= 200 /\ Val(statusCode) <= 300 THEN "success"
    ELSE IF Val(statusCode) >= 300 /\ Val(statusCode) <= 400 THEN "redirect"
    ELSE IF Val(statusCode) >= 400 /\ Val(statusCode) <= 500 THEN "clientError"
    ELSE IF Val(statusCode) >= 500 /\ Val(statusCode) <= 600 THEN "serverError"
    ELSE "serverError"

\* categorizeStatus()
CategorizeStatus(statusCode) ==
    IF statusCode = Null THEN "unreachable"
    ELSE IF Val(statusCode) >= 100 /\ Val(statusCode) < 200 THEN "informational"
    ELSE IF Val(statusCode) >= 200 /\ Val(statusCode) < 300 THEN "success"
    ELSE IF Val(statusCode) >= 300 /\ Val(statusCode) < 400 THEN "redirect"
    ELSE IF Val(statusCode) >= 400 /\ Val(statusCode) < 500 THEN "clientError"
    ELSE IF Val(statusCode) >= 500 /\ Val(statusCode) < 600 THEN "serverError"
    ELSE "serverError"

\* formatLevel1 .. formatLevel6: the category field of what they return, which is
\* the category they are given.
FormatLevelCategory(n, category) == category

\* formatExchange(): the category field of the FormattedExchange it returns; a level
\* value outside 1..6 is formatted as level 3.
FormattedCategory(statusCode, level) ==
    IF level \in Levels
    THEN FormatLevelCategory(level, CategorizeStatus(statusCode))
    ELSE FormatLevelCategory(3, CategorizeStatus(statusCode))

InitStatus ==
    /\ Detached
    /\ IoIdle
    /\ operations = <<>>
    /\ termSize = [rows |-> 3, cols |-> 4]
    /\ \E statusCode \in StatusCodes :
        last = [event |-> "construct", statusCode |-> statusCode]

\* formatExchange(exchange, level)
StatusFormatExchange ==
    /\ last.event = "construct"
    /\ \E level \in Levels :
        last' = [event |-> "formatExchange", statusCode |-> last.statusCode,
                 level |-> level,
                 returned |-> FormattedCategory(last.statusCode, level)]
    /\ UNCHANGED <<ioVars, historyVars, rendererVars>>

NextStatus == StatusFormatExchange

SpecStatus == InitStatus /\ [][NextStatus]_vars

\* The bucket of a status code.
Bucket(statusCode) ==
    CASE statusCode = Null -> "unreachable"
      [] statusCode # Null /\ Val(statusCode) \in 100..199 -> "informational"
      [] statusCode # Null /\ Val(statusCode) \in 200..299 -> "success"
      [] statusCode # Null /\ Val(statusCode) \in 300..399 -> "redirect"
      [] statusCode # Null /\ Val(statusCode) \in 400..499 -> "clientError"
      [] OTHER -> "serverError"

\* C34 (SpecStatus). The category formatExchange reports is, at every detail level,
\* the bucket of the status: absent -> unreachable, 100-199 -> informational,
\* 200-299 -> success, 300-399 -> redirect, 400-499 -> client error, 500-599 and
\* every other code -> server error.
CategoryFollowsBuckets ==
    last.event = "formatExchange" =>
        /\ last.returned = Bucket(last.statusCode)
        /\ last.returned \in {"unreachable", "informational", "success", "redirect",
                              "clientError", "serverError"}
        /\ last.statusCode \in {Some(0), Some(99), Some(600)} =>
               last.returned = "serverError"

\* formatExchange at level 1 of an exchange answered with status 99.
StatusBelowEveryBucketFormatted ==
    /\ last.event = "formatExchange"
    /\ last.statusCode = Some(99)
    /\ last.level = MIN
    /\ last.returned = "serverError"

(***************************************************************************)
(* Header lines. formatExchange is called once for an exchange with one    *)
(* request header and, if it was answered, one response header; a header   *)
(* value is a run of the character "x" of any length up to MaxHeaderValue. *)
(* Of the lines returned the two labels, the header lines and the trailing *)
(* blank line are modelled as texts.                                       *)
(***************************************************************************)
\* The longest header value of the model.
MaxHeaderValue == 102

\* The length beyond which level 4 is documented to cut a header value.
HeaderValueLimit == 100

\* "x".repeat(n)
Repeat(n) == [i \in 1..n |-> "x"]

\* The header values of an answered or failed exchange: the request header's value
\* and, for an answered exchange, the response header's value (Null for a failed
\* one).
HeaderExchanges ==
    {[request |-> Repeat(n), response |-> r] :
        n \in 0..MaxHeaderValue,
        r \in {Null, Some(Repeat(0)), Some(Repeat(MaxHeaderValue))}}

\* `${AnsiColors.dim}    ${key}: ${value}${AnsiColors.reset}` with the key "k"
HeaderLine(value) ==
    AnsiDim \o <<" ", " ", " ", " ", "k", ":", " ">> \o value \o AnsiReset

\* formatLevel4: the lines after the main line. A label stands for its coloured
\* text.
Level4HeaderLines(exchange) ==
    <<<<"Request Headers:">>, HeaderLine(exchange.request)>>
    \o (IF exchange.response # Null
        THEN <<<<"Response Headers:">>, HeaderLine(Val(exchange.response))>>
        ELSE <<>>)
    \o <<<<>>>>

\* formatExchange for an exchange without bodies: the lines after the main line.
\* Levels 1 to 3 return the main line only; levels 5 and 6 copy the lines of level
\* 4, take the trailing blank line off and put it back.
HeaderLines(exchange, level) ==
    IF level < 4 THEN <<>> ELSE Level4HeaderLines(exchange)

InitHeaders ==
    /\ Detached
    /\ IoIdle
    /\ operations = <<>>
    /\ termSize = [rows |-> 3, cols |-> 4]
    /\ \E exchange \in HeaderExchanges :
        last = [event |-> "construct", exchange |-> exchange]

\* formatExchange(exchange, level)
HeadersFormatExchange ==
    /\ last.event = "construct"
    /\ \E level \in Levels :
        last' = [event |-> "formatExchange", exchange |-> last.exchange,
                 level |-> level, lines |-> HeaderLines(last.exchange, level)]
    /\ UNCHANGED <<ioVars, historyVars, rendererVars>>

NextHeaders == HeadersFormatExchange

SpecHeaders == InitHeaders /\ [][NextHeaders]_vars

\* String.prototype.includes
Includes(text, part) ==
    \E i \in 0..(Len(text) - Len(part)) : SubSeq(text, i + 1, i + Len(part)) = part

\* The header values of an exchange.
HeaderValues(exchange) ==
    {exchange.request}
    \cup (IF exchange.response # Null THEN {Val(exchange.response)} ELSE {})

\* C35 (SpecHeaders), as claimed. For a header value longer than 100 characters,
\* level 4 emits a line with a shortened value ending in an ellipsis and no line
\* holds the full value, while level 5 emits a line holding the full value.
Level4CutsLongHeaderValues ==
    last.event = "formatExchange" =>
        \A value \in HeaderValues(last.exchange) :
            Len(value) > HeaderValueLimit =>
                /\ last.level = 4 =>
                       /\ \E i \in 1..Len(last.lines) :
                              Includes(last.lines[i], <<"x">> \o Ellipsis)
                       /\ \A i \in 1..Len(last.lines) :
                              ~Includes(last.lines[i], value)
                /\ last.level = 5 =>
                       \E i \in 1..Len(last.lines) : Includes(last.lines[i], value)

(***************************************************************************)
(* HttpProxyServer. Each inbound request is forwarded by handleRequest and *)
(* answered by handleResponse or by the error handler of proxyReq. Every   *)
(* step below is one callback of the event loop run to its end; the rest   *)
(* of an async function after an await runs with the callback that settles *)
(* the awaited promise, before any other event is handled. The target's    *)
(* events come in the orders node:http emits them: an 'error' on proxyReq  *)
(* while the connection is open, before the response or, when the socket   *)
(* fails under a response still being read, after it, and then followed by *)
(* an 'error' on proxyRes; 'end' or 'error' on proxyRes once.              *)
(***************************************************************************)
\* handleRequest up to its await: the body of the client's request is being
\* collected.
HandleRequest(forward) == [forward EXCEPT !.pc = "collectBody"]

\* handleRequest after its await: the options are built, request() is called with
\* the response callback, the error handler is registered, the body is written and
\* proxyReq ended.
HandleRequestAfterBody(forward) == [forward EXCEPT !.pc = "forwarded"]

\* clientRes.writeHead(status) and clientRes.end(): writeHead throws once the headers
\* are sent, and what follows it in the caller is not run.
Answer(client, status) == IF client = "open" THEN status ELSE client

\* The error handler of proxyReq: an exchange without a response is made and handed
\* to onExchange, then 502 is sent.
ProxyReqOnError(forward) ==
    [forward EXCEPT !.calls = Append(@, "null"),
                    !.client = Answer(@, "502")]

\* handleResponse up to its await: the body of the target's response is being
\* collected.
HandleResponse(forward) == [forward EXCEPT !.response = "collectBody"]

\* handleResponse after its await: an exchange with the response is made and handed
\* to onExchange, then the target's status, headers and body are sent.
HandleResponseAfterBody(forward) ==
    [forward EXCEPT !.response = "done",
                    !.calls = Append(@, "response"),
                    !.client = Answer(@, "answered")]

InitProxy ==
    /\ Detached
    /\ operations = <<>>
    /\ termSize = [rows |-> 3, cols |-> 4]
    /\ proxy = NewProxy
    /\ store = NewStore
    /\ last = [event |-> "construct"]

\* One step of the forward of a request r, leaving everything else as it is.
ProxyStep(r, forward) ==
    /\ proxy' = [proxy EXCEPT ![r] = forward]
    /\ UNCHANGED <<historyVars, rendererVars, store, last>>

\* The server's 'request' event: handleRequest(clientReq, clientRes)
ProxyRequest ==
    \E r \in Requests :
        /\ proxy[r].pc = "idle"
        /\ ProxyStep(r, HandleRequest(proxy[r]))

\* 'end' or 'error' on clientReq: collectBody resolves and handleRequest goes on.
ProxyRequestBody ==
    \E r \in Requests :
        /\ proxy[r].pc = "collectBody"
        /\ ProxyStep(r, HandleRequestAfterBody(proxy[r]))

\* 'response' on proxyReq: the callback given to request()
ProxyResponse ==
    \E r \in Requests :
        /\ proxy[r].pc = "forwarded"
        /\ proxy[r].socket = "open"
        /\ proxy[r].response = "none"
        /\ ProxyStep(r, HandleResponse(proxy[r]))

\* 'end' on proxyRes: the response is complete, collectBody resolves and
\* handleResponse goes on.
ProxyResponseEnd ==
    \E r \in Requests :
        /\ proxy[r].response = "collectBody"
        /\ proxy[r].socket = "open"
        /\ ProxyStep(r, [HandleResponseAfterBody(proxy[r]) EXCEPT !.socket = "ended"])

\* 'error' on proxyRes: the connection closed before the response was complete, or
\* the socket had failed; collectBody resolves with null and handleResponse goes on.
ProxyResponseError ==
    \E r \in Requests :
        /\ proxy[r].response = "collectBody"
        /\ proxy[r].socket \in {"open", "failed"}
        /\ ProxyStep(r, [HandleResponseAfterBody(proxy[r]) EXCEPT !.socket = "failed"])

\* 'error' on proxyReq: the target refused or the socket failed.
ProxyRequestError ==
    \E r \in Requests :
        /\ proxy[r].pc = "forwarded"
        /\ proxy[r].socket = "open"
        /\ ProxyStep(r, [ProxyReqOnError(proxy[r]) EXCEPT !.socket = "failed"])

NextProxy ==
    \/ ProxyRequest
    \/ ProxyRequestBody
    \/ ProxyResponse
    \/ ProxyResponseEnd
    \/ ProxyResponseError
    \/ ProxyRequestError

SpecProxy == InitProxy /\ [][NextProxy]_vars

\* C36 (SpecProxy), as claimed. For every inbound request onExchange is called at
\* most once; once the client is answered it was called exactly once: with a
\* response when the target answered, without one, and with a 502 to the client,
\* when the forward failed.
OneExchangePerRequest ==
    \A r \in Requests :
        /\ Len(proxy[r].calls) <= 1
        /\ proxy[r].client = "answered" => proxy[r].calls = <<"response">>
        /\ proxy[r].client = "502" => proxy[r].calls = <<"null">>
        /\ proxy[r].response = "done" => proxy[r].calls = <<"response">>

(***************************************************************************)
(* The selection as the inspect command reads it (Spec).                   *)
(***************************************************************************)
\* C37 (Spec). Selection mode is active exactly when selectedIndex is present; so
\* whenever isSelectionActive() is true, getSelectedIndex() is not null and
\* history.getByIndex(getSelectedIndex()) returns an exchange.
ModeAndIndexAgree ==
    /\ selectionMode = "active" <=> selectedIndex # Null
    /\ IsSelectionActive(selectionMode) =>
           /\ GetSelectedIndex(selectedIndex) # Null
           /\ GetByIndex(exchanges, Val(GetSelectedIndex(selectedIndex))) # <<>>

\* An exchange arrives at a full history that has already evicted, while its oldest
\* exchange is selected.
InspectableAfterEviction ==
    /\ IsSelectionActive(selectionMode)
    /\ last.event = "exchange"
    /\ Len(exchanges) = maxSize
    /\ nextId > maxSize + 1
    /\ selectedIndex = Some(0)

(***************************************************************************)
(* The shape of the selection window (Spec).                               *)
(***************************************************************************)
\* C38 (Spec), as claimed. Levels 2-6: when a selection is active and the flattened
\* lines exceed viewportHeight, the rendered window is a slice of exactly
\* viewportHeight flattened lines with 0 <= start and end <= total, and it holds the
\* first line of the selected item, also when the item has more lines than the
\* viewport.
WindowHoldsFirstSelectedLine ==
    SelectionOverflowsViewport =>
        /\ RenderedWindow.endIndex - RenderedWindow.startIndex
               = CalculateRegions(termSize).viewportHeight
        /\ 0 <= RenderedWindow.startIndex
        /\ RenderedWindow.endIndex <= Len(AllLines(FormattedNow))
        /\ RenderedWindow.startIndex <= SelectedItemSpan.start
        /\ SelectedItemSpan.start < RenderedWindow.endIndex

(***************************************************************************)
(* The viewport's height and the rows that can be written (SpecLayout).    *)
(***************************************************************************)
\* C39 (SpecLayout), as claimed. For every terminal size, viewportHeight is
\* viewportEndRow - viewportStartRow + 1, and writeViewportLine(r, text) returns
\* true for exactly the relative rows 0 <= r < viewportHeight.
HeightIsWritableRows ==
    /\ last.event = "getRegions" =>
           last.returned.viewportHeight
               = last.returned.viewportEndRow - last.returned.viewportStartRow + 1
    /\ last.event = "writeViewportLine" =>
           (last.returned <=>
               (/\ 0 <= last.viewportRow
                /\ last.viewportRow < CalculateRegions(termSize).viewportHeight))

(***************************************************************************)
(* FileExchangeStore. save() is called for every exchange and not awaited  *)
(* (void store.save(exchange)), so several calls are under way at once. A  *)
(* call stands at "idle" (not made), "mkdir" (mkdir issued and awaited),   *)
(* "mkdirDone" (the directory made, save() not yet resumed), "mkdirFailed" *)
(* (mkdir rejected, and save() with it), "writeFile" (writeFile issued and *)
(* awaited), "done" or "writeFailed".                                      *)
(***************************************************************************)
\* Mutant of save(): the flag is set before the directory is awaited.
SaveFlaggingFirst(st, s) ==
    IF ~st.initialized
    THEN [st EXCEPT !.initialized = TRUE, !.saves[s] = "mkdir"]
    ELSE [st EXCEPT !.saves[s] = "writeFile"]

\* save(exchange) up to its first await: ensureStorageDir() when the flag is not
\* set, writeFile otherwise.
Save(st, s) ==
    IF ~st.initialized
    THEN [st EXCEPT !.saves[s] = "mkdir"]
    ELSE [st EXCEPT !.saves[s] = "writeFile"]

\* save(exchange) after await this.ensureStorageDir(): the flag is set and writeFile
\* is issued.
SaveAfterEnsureStorageDir(st, s) ==
    [st EXCEPT !.initialized = TRUE, !.saves[s] = "writeFile"]

InitStore ==
    /\ Detached
    /\ operations = <<>>
    /\ termSize = [rows |-> 3, cols |-> 4]
    /\ proxy = NewProxy
    /\ store = NewStore
    /\ last = [event |-> "construct"]

\* void store.save(exchange)
StoreSave ==
    /\ \E s \in Saves :
        /\ store.saves[s] = "idle"
        /\ store' = Save(store, s)
    /\ UNCHANGED <<historyVars, rendererVars, proxy, last>>

\* mkdir(storageDir, { recursive: true }) completes: the directory is there.
StoreMkdirDone ==
    /\ \E s \in Saves :
        /\ store.saves[s] = "mkdir"
        /\ store' = [store EXCEPT !.directory = TRUE, !.saves[s] = "mkdirDone"]
    /\ UNCHANGED <<historyVars, rendererVars, proxy, last>>

\* mkdir rejects: save() rejects where it awaits, the flag is not set and nothing is
\* written.
StoreMkdirFails ==
    /\ \E s \in Saves :
        /\ store.saves[s] = "mkdir"
        /\ store' = [store EXCEPT !.saves[s] = "mkdirFailed"]
    /\ UNCHANGED <<historyVars, rendererVars, proxy, last>>

\* save() resumes after await this.ensureStorageDir()
StoreSaveResumes ==
    /\ \E s \in Saves :
        /\ store.saves[s] = "mkdirDone"
        /\ store' = SaveAfterEnsureStorageDir(store, s)
    /\ UNCHANGED <<historyVars, rendererVars, proxy, last>>

\* writeFile completes or rejects, and save() with it.
StoreWriteFileSettles ==
    /\ \E s \in Saves, outcome \in {"done", "writeFailed"} :
        /\ store.saves[s] = "writeFile"
        /\ store' = [store EXCEPT !.saves[s] = outcome]
    /\ UNCHANGED <<historyVars, rendererVars, proxy, last>>

NextStore ==
    \/ StoreSave
    \/ StoreMkdirDone
    \/ StoreMkdirFails
    \/ StoreSaveResumes
    \/ StoreWriteFileSettles

SpecStore == InitStore /\ [][NextStore]_vars

\* C40 (SpecStore). Under every interleaving of save() calls, a save has issued its
\* file write only when a creation of the storage directory has completed, and the
\* initialized flag is true only when one has; a save called before the flag was set
\* comes to its write only through its own completed creation.
WriteOnlyAfterDirectoryCreated ==
    /\ \A s \in Saves :
           store.saves[s] \in {"writeFile", "done", "writeFailed"} => store.directory
    /\ store.initialized => store.directory
    /\ \A s \in Saves : store.saves[s] = "mkdirDone" => store.directory
    /\ (\E s \in Saves : store.saves[s] \in {"writeFile", "done", "writeFailed"})
           => store.initialized

\* Two early saves each create the directory: one has resumed and issued its write
\* while the creation of the other is still under way.
EarlySavesEachCreate ==
    \E s, t \in Saves :
        /\ store.saves[s] = "writeFile"
        /\ store.saves[t] = "mkdir"
        /\ store.initialized

============================================================================
